---- MODULE Spec2Model ----
(***************************************************************************)
(* Model of realsense2_camera's BaseRealSenseNode                          *)
(* (src/realsense2_camera/src/base_realsense_node.cpp): the start-up       *)
(* sequence publishTopics(), the time base, the filter list, the frame     *)
(* callback and the inertial (HID) callback running on the SDK's threads,  *)
(* and toggleSensors().                                                    *)
(*                                                                         *)
(* Time: ros::Time and ros::Duration are integers counting nanoseconds;    *)
(* a double holding seconds is an integer counting nanoseconds as well     *)
(* (fixed point, the rounding of IEEE doubles is not modelled); hardware   *)
(* timestamps are integers counting milliseconds.                          *)
(***************************************************************************)
EXTENDS Integers, Sequences, FiniteSets, TLC

\* ------------------------------------------------------------------ bounds
MaxTokens == 3
MaxDeliveries == 2
MaxHwTime == 1
MaxWall == 1
MaxFrames == 3
MaxSubscribers == 2
MaxPoints == 3
\* frame numbers the device gives a frame
MaxFrameNumber == 2

\* ------------------------------------------------------- stream catalogue
DEPTH == "DEPTH"
INFRA1 == "INFRA1"
INFRA2 == "INFRA2"
COLOR == "COLOR"
FISHEYE == "FISHEYE"
GYRO == "GYRO"
ACCEL == "ACCEL"

StreamKeys == {DEPTH, INFRA1, INFRA2, COLOR, FISHEYE, GYRO, ACCEL}

\* stream_index_pair{type, index} of each key
StreamType ==
    [k \in StreamKeys |->
        CASE k = DEPTH -> "RS2_STREAM_DEPTH"
          [] k \in {INFRA1, INFRA2} -> "RS2_STREAM_INFRARED"
          [] k = COLOR -> "RS2_STREAM_COLOR"
          [] k = FISHEYE -> "RS2_STREAM_FISHEYE"
          [] k = GYRO -> "RS2_STREAM_GYRO"
          [] OTHER -> "RS2_STREAM_ACCEL"]

StreamIndex ==
    [k \in StreamKeys |-> CASE k = INFRA1 -> 1 [] k = INFRA2 -> 2 [] OTHER -> 0]

\* the sensor groups the code iterates over: one inner list per sensor module
IMAGE_STREAMS == << <<DEPTH, INFRA1, INFRA2>>, <<COLOR>>, <<FISHEYE>> >>
HID_STREAMS == << <<GYRO, ACCEL>> >>

SeqToSet(s) == {s[i] : i \in 1..Len(s)}

ImageKeys == UNION {SeqToSet(IMAGE_STREAMS[i]) : i \in 1..Len(IMAGE_STREAMS)}
HidKeys == UNION {SeqToSet(HID_STREAMS[i]) : i \in 1..Len(HID_STREAMS)}

\* the descriptor tables written by the constructor
CtorFormat ==
    [k \in StreamKeys |->
        CASE k = DEPTH -> "Z16"
          [] k \in {INFRA1, INFRA2} -> "Y8"
          [] k = COLOR -> "RGB8"
          [] k = FISHEYE -> "RAW8"
          [] OTHER -> "MOTION_XYZ32F"]

CtorImageFormat ==
    [k \in StreamKeys |->
        CASE k = DEPTH -> "CV_16UC1" [] k = COLOR -> "CV_8UC3" [] OTHER -> "CV_8UC1"]

CtorEncoding ==
    [k \in StreamKeys |->
        CASE k = DEPTH -> "16UC1" [] k = COLOR -> "rgb8" [] OTHER -> "8UC1"]

CtorUnitStepSize ==
    [k \in StreamKeys |-> CASE k = DEPTH -> 2 [] k = COLOR -> 3 [] OTHER -> 1]

\* ------------------------------------------------------------- the device
StereoModule == "Stereo Module"
CodedLight == "Coded-Light Depth Sensor"
RGBCamera == "RGB Camera"
WideFOV == "Wide FOV Camera"
MotionModule == "Motion Module"
OtherModule == "Tracking Module"

SensorModules == {StereoModule, CodedLight, RGBCamera, WideFOV, MotionModule}

\* the stream keys setupDevice binds to a module name
ModuleStreams(m) ==
    CASE m = StereoModule -> {DEPTH, INFRA1, INFRA2}
      [] m = CodedLight -> {DEPTH, INFRA1}
      [] m = RGBCamera -> {COLOR}
      [] m = WideFOV -> {FISHEYE}
      [] m = MotionModule -> {GYRO, ACCEL}
      [] OTHER -> {}

NoSensor == "none"

\* RS2_STREAM_ANY as the point cloud's texture stream: no texture
AnyStream == "RS2_STREAM_ANY"

Profile(k, fmt, w, h, fps) ==
    [stream |-> StreamType[k], index |-> StreamIndex[k], fmt |-> fmt,
     w |-> w, h |-> h, fps |-> fps]

\* stream profiles in the order the hardware reports them
HwProfiles(m) ==
    CASE m = StereoModule ->
            << Profile(DEPTH, "Z16", 1280, 720, 30),
               Profile(DEPTH, "Z16", 640, 480, 30),
               Profile(INFRA1, "Y8", 640, 480, 30),
               Profile(INFRA2, "Y8", 640, 480, 30) >>
      [] m = RGBCamera ->
            << Profile(COLOR, "RGB8", 1280, 720, 30),
               Profile(COLOR, "RGB8", 640, 480, 30) >>
      [] m = MotionModule ->
            << Profile(GYRO, "MOTION_XYZ32F", 0, 0, 200),
               Profile(ACCEL, "MOTION_XYZ32F", 0, 0, 63) >>
      [] OTHER -> << >>

KeyOf(stream, index) ==
    CHOOSE k \in StreamKeys : StreamType[k] = stream /\ StreamIndex[k] = index

\* ------------------------------------------------------------------- time
NsPerMs == 1000000
\* the wall clock is read in steps of half a millisecond
TickNs == NsPerMs \div 2
NowOrigin == 10 * NsPerMs
HwTimes == 0..MaxHwTime
\* the values ros::Time::now() can return
WallTimes == {NowOrigin + i * TickNs : i \in 0..MaxWall}
\* a double member no constructor has written
Unset == -1
RosTimeOffsets == {0, TickNs \div 2}

\* ---------------------------------------------------------- filter tokens
KnownTokens == {"colorizer", "disparity", "spatial", "temporal", "decimation", "pointcloud"}
Tokens == KnownTokens \cup {"", "bogus"}

\* ------------------------------------------------------------------ state
VARIABLES
    phase,                  \* position of the main thread in publishTopics()
    fatal,                  \* why start-up ended the process ("none" while alive)
    device,                 \* module names reported by _dev.query_sensors()
    _align_depth, _pointcloud, _filters_str, _sync_frames, _ros_time_offset,
    _pointcloud_texture,    \* texture stream of the point cloud: a stream key or AnyStream
    _enable, _width, _height, _fps,
    _format, _image_format, _encoding, _unit_step_size,
    _sensors,               \* stream key -> module name, NoSensor when unbound
    sensor,                 \* module name -> [st, target] of the rs2::sensor
    syncer_started,         \* _syncer.start(frame_callback) has been called
    _enabled_profiles,      \* stream key -> sequence of profiles
    _image_publishers,      \* keys with an image and a camera-info publisher
    _filters,               \* names of the NamedFilter list, in order
    _intialize_time_base, _ros_time_base, _camera_time_base,
    pc, cur, stamp, out,    \* per SDK thread: position, frame, timestamp, result
    _seq,                   \* stream key -> sequence counter
    _depth_aligned_seq,     \* stream key -> sequence counter of the aligned depth image
    imu_published,          \* number of sensor_msgs::Imu messages published
    deliveries,             \* callback invocations so far
    initializers,           \* invocations that wrote the time base
    origin,                 \* time base written by the first frame callback
    failed,                 \* callback invocations that ended in the catch handler
    warned,                 \* keys enable_devices warned about (ROS_WARN_STREAM)
    _counter_enabled,       \* the counter publisher has been advertised
    _send_counter,          \* a message was published since the last counter message
    _image_counter,         \* the value of the next counter message
    counters_sent,          \* counter messages published so far
    call, ret               \* a function applied on its own: arguments and result

cfgVars == <<_align_depth, _pointcloud, _filters_str, _sync_frames, _ros_time_offset,
            _pointcloud_texture>>
reqVars == <<_enable, _width, _height, _fps>>
descVars == <<_format, _image_format, _encoding, _unit_step_size>>
devVars == <<_sensors, sensor, syncer_started, _enabled_profiles, _image_publishers>>
timeVars == <<_intialize_time_base, _ros_time_base, _camera_time_base>>
thrVars == <<pc, cur, stamp, out>>
histVars == <<deliveries, initializers, origin>>
fnVars == <<call, ret>>
cntVars == <<_counter_enabled, _send_counter, _image_counter, counters_sent>>

vars == <<phase, fatal, device, cfgVars, reqVars, descVars, devVars, _filters,
          timeVars, thrVars, _seq, _depth_aligned_seq, failed, warned, fnVars, cntVars, imu_published, histVars>>

\* the SDK's delivery threads: one per sensor module and the syncer's
SyncerThread == "Syncer"
Threads == SensorModules \cup {SyncerThread}

NoFrame == [composite |-> FALSE, frames |-> << >>, ts |-> 0]
NoException == "none"
NoOut == [post |-> << >>, handed |-> << >>, published |-> << >>, applied |-> << >>,
          wall |-> 0, done |-> FALSE, todo |-> << >>, threw |-> NoException,
          pcSubs |-> FALSE, projected |-> FALSE, asubs |-> {}, aligned |-> FALSE,
          counter |-> << >>]
NoOrigin == [thread |-> "none", ros |-> -1, cam |-> -1]
NoCall == [fn |-> "none"]
NoRet == [fn |-> "none"]

\* the devices the node is constructed with
Devices ==
    { <<StereoModule, RGBCamera, MotionModule>>,
      <<StereoModule, OtherModule>> }

\* BaseRealSenseNode::BaseRealSenseNode
Constructed ==
    /\ phase = "constructed"
    /\ fatal = "none"
    /\ device \in Devices
    /\ _align_depth = FALSE /\ _pointcloud = FALSE /\ _filters_str = <<"">>
    /\ _sync_frames = FALSE /\ _ros_time_offset = 0
    /\ _pointcloud_texture = AnyStream
    /\ _enable = [k \in StreamKeys |-> FALSE]
    /\ _width = [k \in StreamKeys |-> 0]
    /\ _height = [k \in StreamKeys |-> 0]
    /\ _fps = [k \in StreamKeys |-> 0]
    /\ _format = CtorFormat
    /\ _image_format = CtorImageFormat
    /\ _encoding = CtorEncoding
    /\ _unit_step_size = CtorUnitStepSize
    /\ _sensors = [k \in StreamKeys |-> NoSensor]
    /\ sensor = [m \in SensorModules |-> [st |-> "closed", target |-> "none"]]
    /\ syncer_started = FALSE
    /\ _enabled_profiles = [k \in StreamKeys |-> << >>]
    /\ _image_publishers = {}
    /\ _filters = << >>
    /\ _intialize_time_base = FALSE
    /\ _ros_time_base = 0
    /\ _camera_time_base = Unset        \* the constructor does not write it
    /\ pc = [th \in Threads |-> "idle"]
    /\ cur = [th \in Threads |-> NoFrame]
    /\ stamp = [th \in Threads |-> 0]
    /\ out = [th \in Threads |-> NoOut]
    /\ _seq = [k \in StreamKeys |-> 0]
    /\ _depth_aligned_seq = [k \in StreamKeys |-> 0]
    /\ imu_published = 0
    /\ deliveries = 0
    /\ initializers = 0
    /\ failed = 0
    /\ warned = {}
    /\ origin = NoOrigin
    \* _image_counter(0); the two flags are not in the initializer list and
    \* are taken as false
    /\ _counter_enabled = FALSE /\ _send_counter = FALSE
    /\ _image_counter = 0 /\ counters_sent = 0

\* ----------------------------------------------------------- getParameters
Max(S) == CHOOSE x \in S : \A y \in S : y <= x
Min(S) == CHOOSE x \in S : \A y \in S : x <= y

\* _filters_str.find("pointcloud") != npos, over the tokens of the string
Contains(tokens, tok) == \E i \in 1..Len(tokens) : tokens[i] = tok

\* _filters_str.size() > 0: the empty string splits into one empty token
FiltersStrNonEmpty(tokens) == tokens # <<"">>

\* a variant of PointcloudParam that reads the parameter only
PointcloudParam_only(enable_pointcloud, tokens) == enable_pointcloud

\* _pointcloud after the two statements that write it
PointcloudParam(enable_pointcloud, tokens) ==
    enable_pointcloud \/ Contains(tokens, "pointcloud")

\* a variant of SyncFramesParam that reads the parameter only
SyncFramesParam_only(enable_sync, pointcloud, align_depth, tokens) == enable_sync

\* _sync_frames after the two statements that write it
SyncFramesParam(enable_sync, pointcloud, align_depth, tokens) ==
    enable_sync \/ pointcloud \/ align_depth \/ FiltersStrNonEmpty(tokens)

\* the requested width/height/fps of every stream: 0 asks for any
AnyRequest ==
    [k \in StreamKeys |->
        [w |-> 0, h |-> 0,
         fps |-> CASE k = GYRO -> 200 [] k = ACCEL -> 63 [] OTHER -> 0]]

getParameters(P) ==
    /\ phase = "constructed"
    /\ phase' = "params"
    /\ \E p \in P :
        /\ _align_depth' = p.align_depth
        /\ _pointcloud' = PointcloudParam(p.enable_pointcloud, p.filters)
        /\ _filters_str' = p.filters
        /\ _sync_frames' = SyncFramesParam(p.enable_sync,
                              PointcloudParam(p.enable_pointcloud, p.filters),
                              p.align_depth, p.filters)
        /\ _ros_time_offset' = p.ros_time_offset
        /\ _pointcloud_texture' = p.pointcloud_texture
        /\ _enable' = [k \in StreamKeys |->
                          IF k \in HidKeys THEN p.enable_imu ELSE k \in p.enable]
        /\ _width' = [k \in StreamKeys |-> p.req[k].w]
        /\ _height' = [k \in StreamKeys |-> p.req[k].h]
        /\ _fps' = [k \in StreamKeys |-> p.req[k].fps]
    /\ UNCHANGED <<fatal, device, descVars, devVars, _filters, timeVars,
                   thrVars, _seq, _depth_aligned_seq, failed, warned, fnVars, cntVars, imu_published, histVars>>

\* ------------------------------------------------------------- setupDevice
UnsupportedModule(dev) == \E i \in 1..Len(dev) : dev[i] \notin SensorModules

\* _sensors[...] = elem, a later module overwriting an earlier one
BoundSensors(dev) ==
    [k \in StreamKeys |->
        LET idx == {i \in 1..Len(dev) : k \in ModuleStreams(dev[i])}
        IN  IF idx = {} THEN NoSensor ELSE dev[Max(idx)]]

setupDevice ==
    /\ phase = "params"
    /\ IF UnsupportedModule(device)
       THEN /\ phase' = "dead"
            /\ fatal' = "unsupported_module"
            /\ UNCHANGED <<_sensors, _enable>>
       ELSE /\ phase' = "device"
            /\ fatal' = fatal
            /\ _sensors' = BoundSensors(device)
            /\ _enable' = [k \in StreamKeys |->
                              _enable[k] /\ BoundSensors(device)[k] # NoSensor]
    /\ UNCHANGED <<device, cfgVars, _width, _height, _fps, descVars, sensor,
                   syncer_started, _enabled_profiles, _image_publishers,
                   _filters, timeVars, thrVars, _seq, _depth_aligned_seq, failed, warned, fnVars, cntVars, imu_published,
                   histVars>>

\* --------------------------------------------------------- setupPublishers
setupPublishers ==
    /\ phase = "device"
    /\ phase' = "publishers"
    /\ _image_publishers' = {k \in ImageKeys : _enable[k]}
    \* the counter publisher is advertised with the first enabled image stream
    /\ _counter_enabled' = (_counter_enabled \/ \E k \in ImageKeys : _enable[k])
    /\ UNCHANGED <<fatal, device, cfgVars, reqVars, descVars, _sensors, sensor,
                   syncer_started, _enabled_profiles, _filters, timeVars,
                   thrVars, _seq, _depth_aligned_seq, failed, warned, fnVars, imu_published, histVars,
                   _send_counter, _image_counter, counters_sent>>

\* ---------------------------------------------------------- enable_devices
Matches(p, k, fmt, w, h, fps) ==
    /\ p.fmt = fmt
    /\ (w = 0 \/ p.w = w)
    /\ (h = 0 \/ p.h = h)
    /\ (fps = 0 \/ p.fps = fps)
    /\ p.index = StreamIndex[k]

\* a variant of SelectProfile that takes the last matching profile
SelectProfile_last(profiles, k, fmt, w, h, fps) ==
    LET idx == {i \in 1..Len(profiles) : Matches(profiles[i], k, fmt, w, h, fps)}
    IN  IF idx = {} THEN << >> ELSE << profiles[Max(idx)] >>

\* the first matching profile in hardware order, as a list of length 0 or 1
SelectProfile(profiles, k, fmt, w, h, fps) ==
    LET idx == {i \in 1..Len(profiles) : Matches(profiles[i], k, fmt, w, h, fps)}
    IN  IF idx = {} THEN << >> ELSE << profiles[Min(idx)] >>

Negotiated ==
    [k \in StreamKeys |->
        IF k \in ImageKeys /\ _enable[k]
        THEN SelectProfile(HwProfiles(_sensors[k]), k, _format[k],
                           _width[k], _height[k], _fps[k])
        ELSE << >>]

\* a variant of Unsupported that never warns
Unsupported_none(profs) == {}

\* the enabled image keys enable_devices found no profile for: it warns and
\* clears _enable
Unsupported(profs) == {k \in ImageKeys : _enable[k] /\ profs[k] = << >>}

\* the HID loop of setupStreams: fps and format only
SelectHidProfile(profiles, fmt, fps) ==
    LET idx == {i \in 1..Len(profiles) : profiles[i].fps = fps /\ profiles[i].fmt = fmt}
    IN  IF idx = {} THEN << >> ELSE << profiles[Min(idx)] >>

HidNegotiated(enable) ==
    [k \in StreamKeys |->
        IF k \in HidKeys /\ enable[k]
        THEN SelectHidProfile(HwProfiles(_sensors[k]), _format[k], _fps[k])
        ELSE << >>]

\* ------------------------------------------------------------ setupStreams
\* sens.start(_syncer) in synchronized mode, sens.start(frame_callback) otherwise
StartTarget(sync_frames) == IF sync_frames THEN "syncer" ELSE "frame_callback"

\* the modules of the image groups that have at least one enabled profile;
\* the sensor of a group is the one bound to the group's first key
OpenedImageModules(profs) ==
    { _sensors[IMAGE_STREAMS[g][1]] :
        g \in {i \in 1..Len(IMAGE_STREAMS) :
                 \E k \in SeqToSet(IMAGE_STREAMS[i]) : profs[k] # << >>} }
    \ {NoSensor}

\* updateStreamCalibData runs once per enabled image profile and ends the
\* process when getEnabledProfile(DEPTH) fails
CalibDataFails(profs) ==
    /\ \E k \in ImageKeys : profs[k] # << >>
    /\ profs[DEPTH] = << >>

\* a variant of StreamsFrontKeys that leaves out the _enable tests
StreamsFrontKeys_unguarded(enable, profiles) ==
    {DEPTH, FISHEYE, COLOR, INFRA1, INFRA2}
    \cup (IF profiles[GYRO] # << >> /\ profiles[ACCEL] # << >> THEN HidKeys ELSE {})

\* the keys whose profile list setupStreams takes front() of: getImuInfo of
\* an enabled HID key once both HID keys were found, getRsExtrinsics of
\* DEPTH and each other enabled image key when DEPTH is enabled
StreamsFrontKeys(enable, profiles) ==
    {k \in HidKeys : profiles[GYRO] # << >> /\ profiles[ACCEL] # << >> /\ enable[k]}
    \cup (IF enable[DEPTH] /\ \E x \in {FISHEYE, COLOR, INFRA1, INFRA2} : enable[x]
          THEN {DEPTH} \cup {x \in {FISHEYE, COLOR, INFRA1, INFRA2} : enable[x]}
          ELSE {})

\* the keys whose profile list publishStaticTransforms takes front() of,
\* once getEnabledProfile(DEPTH) has succeeded
TransformFrontKeys(enable, profiles) ==
    IF profiles[DEPTH] = << >> \/ ~\E x \in {COLOR, INFRA1, INFRA2, FISHEYE} : enable[x]
    THEN {}
    ELSE {DEPTH} \cup {x \in {COLOR, INFRA1, INFRA2, FISHEYE} : enable[x]}

\* front() of an empty list is undefined: the process may end or go on
FrontOutcomes(keys, profiles) ==
    IF \E k \in keys : profiles[k] = << >> THEN {"crash", "go_on"} ELSE {"go_on"}

setupStreams ==
    /\ phase = "publishers"
    /\ LET profs == Negotiated
           enable1 == [k \in StreamKeys |->
                          IF k \in ImageKeys
                          THEN _enable[k] /\ profs[k] # << >>
                          ELSE _enable[k]]
           hid == HidNegotiated(enable1)
           hidOpen == hid[GYRO] # << >> /\ hid[ACCEL] # << >>
       IN  /\ _enable' = enable1
           /\ warned' = Unsupported(profs)
           /\ _width' = [k \in StreamKeys |->
                            IF profs[k] # << >> THEN profs[k][1].w ELSE _width[k]]
           /\ _height' = [k \in StreamKeys |->
                            IF profs[k] # << >> THEN profs[k][1].h ELSE _height[k]]
           /\ _fps' = [k \in StreamKeys |->
                            IF profs[k] # << >> THEN profs[k][1].fps ELSE _fps[k]]
           /\ IF CalibDataFails(profs)
              THEN /\ phase' = "dead"
                   /\ fatal' = "no_depth_profile"
                   /\ _enabled_profiles' = profs
                   /\ UNCHANGED <<sensor, syncer_started>>
              ELSE /\ _enabled_profiles' =
                        [k \in StreamKeys |-> IF k \in HidKeys THEN hid[k] ELSE profs[k]]
                   /\ \E o \in FrontOutcomes(
                               StreamsFrontKeys(enable1, _enabled_profiles'),
                               _enabled_profiles') :
                        IF o = "crash"
                        THEN phase' = "dead" /\ fatal' = "front_of_empty_list"
                        ELSE phase' = "streams" /\ fatal' = fatal
                   /\ sensor' =
                        [m \in SensorModules |->
                            IF m \in OpenedImageModules(profs)
                            THEN [st |-> "streaming", target |-> StartTarget(_sync_frames)]
                            ELSE IF hidOpen /\ m = _sensors[GYRO]
                            THEN [st |-> "streaming", target |-> "hid_callback"]
                            ELSE sensor[m]]
                   /\ syncer_started' = _sync_frames
    /\ UNCHANGED <<device, cfgVars, descVars, _sensors, _image_publishers,
                   _filters, timeVars, thrVars, _seq, _depth_aligned_seq, failed, fnVars, cntVars,
                   imu_published, histVars>>

\* ------------------------------------------------------------ setupFilters
NoAcc(filters0) ==
    [filters |-> filters0, use_disparity_filter |-> FALSE,
     use_colorizer_filter |-> FALSE, ok |-> TRUE, scanned |-> 0,
     assert_ok |-> TRUE]

\* a variant of FilterToken that skips an unknown token
FilterToken_lenient(s, acc, pointcloud) ==
    LET a == [acc EXCEPT !.scanned = acc.scanned + 1]
    IN  CASE s = "colorizer" -> [a EXCEPT !.use_colorizer_filter = TRUE]
          [] s = "disparity" -> [a EXCEPT !.use_disparity_filter = TRUE]
          [] s \in {"spatial", "temporal", "decimation"} ->
                [a EXCEPT !.filters = Append(a.filters, s)]
          [] s = "pointcloud" -> [a EXCEPT !.assert_ok = a.assert_ok /\ pointcloud]
          [] OTHER -> a

\* one iteration of the token loop
FilterToken(s, acc, pointcloud) ==
    LET a == [acc EXCEPT !.scanned = acc.scanned + 1]
    IN  CASE s = "colorizer" -> [a EXCEPT !.use_colorizer_filter = TRUE]
          [] s = "disparity" -> [a EXCEPT !.use_disparity_filter = TRUE]
          [] s \in {"spatial", "temporal", "decimation"} ->
                [a EXCEPT !.filters = Append(a.filters, s)]
          [] s = "pointcloud" -> [a EXCEPT !.assert_ok = a.assert_ok /\ pointcloud]
          [] s # "" -> [a EXCEPT !.ok = FALSE]     \* throw; with no exception in flight
          [] OTHER -> a

RECURSIVE ScanTokens(_, _, _, _)
ScanTokens(tokens, i, acc, pointcloud) ==
    IF i > Len(tokens) \/ ~acc.ok
    THEN acc
    ELSE ScanTokens(tokens, i + 1, FilterToken(tokens[i], acc, pointcloud), pointcloud)

\* a variant of AddDisparity that appends both transforms
AddDisparity_back(filters) == filters \o <<"disparity_start", "disparity_end">>

AddDisparity(filters) == <<"disparity_start">> \o filters \o <<"disparity_end">>

\* a variant of AddColorizer that puts the colorizer first
AddColorizer_front(filters) == <<"colorizer">> \o filters

AddColorizer(filters) == Append(filters, "colorizer")

AddPointcloud(filters) == Append(filters, "pointcloud")

\* the filter list setupFilters leaves behind; ok = FALSE when it ended the process
SetupFilters(tokens, pointcloud, filters0) ==
    LET acc == ScanTokens(tokens, 1, NoAcc(filters0), pointcloud)
        f1 == IF acc.use_disparity_filter THEN AddDisparity(acc.filters) ELSE acc.filters
        f2 == IF acc.use_colorizer_filter THEN AddColorizer(f1) ELSE f1
        f3 == IF pointcloud THEN AddPointcloud(f2) ELSE f2
    IN  IF acc.ok THEN [acc EXCEPT !.filters = f3] ELSE acc

\* a variant of AdoptColor that writes the COLOR entry from the DEPTH one
AdoptColor_reversed(table) == [table EXCEPT ![COLOR] = table[DEPTH]]

\* _format[DEPTH] = _format[COLOR]; and the like, on one descriptor table
AdoptColor(table) == [table EXCEPT ![DEPTH] = table[COLOR]]

setupFilters ==
    /\ phase = "streams"
    /\ LET r == SetupFilters(_filters_str, _pointcloud, _filters)
           col == r.ok /\ r.use_colorizer_filter
       IN  /\ _filters' = r.filters
           \* a failed assert ends the process where asserts are compiled
           \* in (ndebug false) and does nothing where they are not
           /\ \E ndebug \in (IF r.assert_ok THEN {TRUE} ELSE BOOLEAN) :
                 /\ phase' = IF r.ok /\ ndebug THEN "filters" ELSE "dead"
                 /\ fatal' = CASE ~ndebug -> "assertion_failed"
                               [] ~r.ok -> "unknown_filter"
                               [] OTHER -> fatal
           /\ _format' = IF col THEN AdoptColor(_format) ELSE _format
           /\ _image_format' = IF col THEN AdoptColor(_image_format) ELSE _image_format
           /\ _encoding' = IF col THEN AdoptColor(_encoding) ELSE _encoding
           /\ _unit_step_size' = IF col THEN AdoptColor(_unit_step_size) ELSE _unit_step_size
           /\ _width' = IF col THEN AdoptColor(_width) ELSE _width
           /\ _height' = IF col THEN AdoptColor(_height) ELSE _height
    /\ UNCHANGED <<device, cfgVars, _enable, _fps, devVars, timeVars,
                   thrVars, _seq, _depth_aligned_seq, failed, warned, fnVars, cntVars, imu_published, histVars>>

\* ------------------------------------------------ publishStaticTransforms
publishStaticTransforms ==
    /\ phase = "filters"
    /\ IF _enabled_profiles[DEPTH] = << >>
       THEN phase' = "dead" /\ fatal' = "no_depth_profile"
       ELSE \E o \in FrontOutcomes(TransformFrontKeys(_enable, _enabled_profiles),
                                    _enabled_profiles) :
               IF o = "crash"
               THEN phase' = "dead" /\ fatal' = "front_of_empty_list"
               ELSE phase' = "up" /\ fatal' = fatal
    /\ UNCHANGED <<device, cfgVars, reqVars, descVars, devVars, _filters,
                   timeVars, thrVars, _seq, _depth_aligned_seq, failed, warned, fnVars, cntVars, imu_published, histVars>>

\* ---------------------------------------------------- frames and delivery
Alive == phase \in {"streams", "filters", "up"}

VideoFrame(k) ==
    [key |-> k, fmt |-> _enabled_profiles[k][1].fmt,
     kind |-> IF k \in HidKeys THEN "motion" ELSE "video"]

\* a variant of OpenedKeys in which a module delivers every opened stream
OpenedKeys_any(m) == {k \in StreamKeys : _enabled_profiles[k] # << >>}

\* the streams a module was opened with
OpenedKeys(m) == {k \in StreamKeys : _sensors[k] = m /\ _enabled_profiles[k] # << >>}

KeyOrder == <<DEPTH, INFRA1, INFRA2, COLOR, FISHEYE, GYRO, ACCEL>>

RECURSIVE FramesOf(_, _)
FramesOf(keys, i) ==
    IF i > Len(KeyOrder) THEN << >>
    ELSE (IF KeyOrder[i] \in keys THEN <<VideoFrame(KeyOrder[i])>> ELSE << >>)
         \o FramesOf(keys, i + 1)

\* a variant of CheckNext that never takes the initializing branch
CheckNext_skip(initialized) == "stamp"

\* if (false == _intialize_time_base): the branch frame_callback takes
CheckNext(initialized) == IF initialized = FALSE THEN "init_flag" ELSE "stamp"

\* a sensor started with frame_callback hands it one frame of one stream; the
\* callback starts by testing _intialize_time_base
DeliverFrame(m) ==
    /\ Alive
    /\ sensor[m].st = "streaming" /\ sensor[m].target = "frame_callback"
    /\ pc[m] = "idle"
    /\ deliveries < MaxDeliveries
    /\ \E k \in OpenedKeys(m), ts \in HwTimes :
          cur' = [cur EXCEPT ![m] = [composite |-> FALSE,
                                     frames |-> <<VideoFrame(k)>>, ts |-> ts]]
    /\ pc' = [pc EXCEPT ![m] = CheckNext(_intialize_time_base)]
    /\ deliveries' = deliveries + 1
    /\ origin' = IF origin.thread = "none" THEN [origin EXCEPT !.thread = m] ELSE origin
    /\ UNCHANGED <<phase, fatal, device, cfgVars, reqVars, descVars, devVars,
                   _filters, timeVars, stamp, out, _seq, _depth_aligned_seq, failed, warned, fnVars, cntVars, imu_published,
                   initializers>>

\* the modules whose frames reach the syncer
SyncedModules == {m \in SensorModules :
                    sensor[m].st = "streaming" /\ sensor[m].target = "syncer"}

\* the started syncer hands frame_callback a frameset on its own thread
DeliverFrameset ==
    /\ Alive
    /\ syncer_started
    /\ pc[SyncerThread] = "idle"
    /\ deliveries < MaxDeliveries
    /\ \E M \in (SUBSET SyncedModules) \ {{}}, ts \in HwTimes :
          cur' = [cur EXCEPT ![SyncerThread] =
                    [composite |-> TRUE,
                     frames |-> FramesOf(UNION {OpenedKeys(m) : m \in M}, 1),
                     ts |-> ts]]
    /\ pc' = [pc EXCEPT ![SyncerThread] = CheckNext(_intialize_time_base)]
    /\ deliveries' = deliveries + 1
    /\ origin' = IF origin.thread = "none"
                 THEN [origin EXCEPT !.thread = SyncerThread] ELSE origin
    /\ UNCHANGED <<phase, fatal, device, cfgVars, reqVars, descVars, devVars,
                   _filters, timeVars, stamp, out, _seq, _depth_aligned_seq, failed, warned, fnVars, cntVars, imu_published,
                   initializers>>

\* ----------------------------------------------- frame_callback: time base
\* _intialize_time_base = true;
InitFlag(th) ==
    /\ Alive
    /\ pc[th] = "init_flag"
    /\ _intialize_time_base' = TRUE
    /\ pc' = [pc EXCEPT ![th] = "init_ros"]
    /\ initializers' = initializers + 1
    /\ UNCHANGED <<phase, fatal, device, cfgVars, reqVars, descVars, devVars,
                   _filters, _ros_time_base, _camera_time_base, cur,
                   stamp, out, _seq, _depth_aligned_seq, failed, warned, fnVars, cntVars, imu_published, deliveries, origin>>

\* _ros_time_base = ros::Time::now();
InitRos(th) ==
    /\ Alive
    /\ pc[th] = "init_ros"
    /\ \E wall \in WallTimes :
          /\ _ros_time_base' = wall
          /\ origin' = IF origin.thread = th /\ origin.ros = -1
                       THEN [origin EXCEPT !.ros = wall] ELSE origin
    /\ pc' = [pc EXCEPT ![th] = "init_cam"]
    /\ UNCHANGED <<phase, fatal, device, cfgVars, reqVars, descVars, devVars,
                   _filters, _intialize_time_base, _camera_time_base, cur,
                   stamp, out, _seq, _depth_aligned_seq, failed, warned, fnVars, cntVars, imu_published, deliveries, initializers>>

\* _camera_time_base = frame.get_timestamp();
InitCam(th) ==
    /\ Alive
    /\ pc[th] = "init_cam"
    /\ _camera_time_base' = cur[th].ts
    /\ pc' = [pc EXCEPT ![th] = "stamp"]
    /\ origin' = IF origin.thread = th /\ origin.cam = -1
                 THEN [origin EXCEPT !.cam = cur[th].ts] ELSE origin
    /\ UNCHANGED <<phase, fatal, device, cfgVars, reqVars, descVars, devVars,
                   _filters, _intialize_time_base, _ros_time_base, cur,
                   stamp, out, _seq, _depth_aligned_seq, failed, warned, fnVars, cntVars, imu_published, deliveries, initializers>>

\* reading a double: an unset one holds whatever the memory held (g)
Garbage(v) == IF v = Unset THEN HwTimes ELSE {0}
ReadDouble(v, g) == IF v = Unset THEN g ELSE v

\* (ms - ms) / 1000: milliseconds to seconds, seconds counted in nanoseconds
MsToSec(ms) == ms * NsPerMs

\* a variant of TimeStamp that always uses the time base
TimeStamp_base(sync_frames, wall, offset, ros_base, cam_base, ts) ==
    ros_base + MsToSec(ts - cam_base)

\* the ros::Time t of one callback
TimeStamp(sync_frames, wall, offset, ros_base, cam_base, ts) ==
    IF sync_frames
    THEN wall + offset
    ELSE ros_base + MsToSec(ts - cam_base)

FrameStamp(th) ==
    /\ Alive
    /\ pc[th] = "stamp"
    /\ \E wall \in (IF _sync_frames THEN WallTimes ELSE {0}),
          g \in (IF _sync_frames THEN {0} ELSE Garbage(_camera_time_base)) :
          /\ stamp' = [stamp EXCEPT ![th] =
                          TimeStamp(_sync_frames, wall, _ros_time_offset,
                                    _ros_time_base, ReadDouble(_camera_time_base, g),
                                    cur[th].ts)]
          /\ out' = [out EXCEPT ![th] = [NoOut EXCEPT !.wall = wall]]
    /\ pc' = [pc EXCEPT ![th] = "publish"]
    /\ UNCHANGED <<phase, fatal, device, cfgVars, reqVars, descVars, devVars,
                   _filters, timeVars, cur, _seq, _depth_aligned_seq, failed, warned, fnVars, cntVars, imu_published, histVars>>

\* ------------------------------------------- frame_callback: the frameset
HasDepth(frames) ==
    \E i \in 1..Len(frames) : frames[i].key = DEPTH /\ frames[i].kind = "video"

\* the frame a processing block adds to a frameset holding a depth frame
Produced(name) ==
    CASE name = "colorizer" -> << [key |-> DEPTH, fmt |-> "RGB8", kind |-> "video"] >>
      [] name = "pointcloud" -> << [key |-> DEPTH, fmt |-> "XYZ32F", kind |-> "points"] >>
      [] OTHER -> << >>

\* filter_it->_filter->process(frameset); front says whether the block's
\* new frame comes before the frames of its input in the resulting frameset
ProcessFilter(name, frames, front) ==
    IF HasDepth(frames)
    THEN (IF front THEN Produced(name) \o frames ELSE frames \o Produced(name))
    ELSE frames

\* a variant of ApplyFilters that walks the list from its end
RECURSIVE ApplyFilters_reversed(_, _, _, _)
ApplyFilters_reversed(filters, i, fs, front) ==
    IF i > Len(filters) THEN fs
    ELSE LET name == filters[Len(filters) + 1 - i]
         IN  ApplyFilters_reversed(filters, i + 1,
                 [frames |-> ProcessFilter(name, fs.frames, front),
                  applied |-> Append(fs.applied, name)], front)

\* the loop over _filters from its i-th element: fs.frames is the frameset,
\* replaced by each stage's result, fs.applied the stages that have run
RECURSIVE ApplyFilters(_, _, _, _)
ApplyFilters(filters, i, fs, front) ==
    IF i > Len(filters) THEN fs
    ELSE ApplyFilters(filters, i + 1,
             [frames |-> ProcessFilter(filters[i], fs.frames, front),
              applied |-> Append(fs.applied, filters[i])], front)

NoDedup ==
    [points_in_set |-> FALSE, frames_to_publish |-> << >>, is_in_set |-> {},
     is_depth_arrived |-> FALSE]

\* a variant of DedupStep that keeps every frame
DedupStep_all(post, i, d, align_depth) ==
    [d EXCEPT !.frames_to_publish = Append(@, i)]

\* a variant of DedupStep that treats a point cloud like an image frame
DedupStep_keyed(post, i, d, align_depth) ==
    IF post[i].key \notin d.is_in_set
    THEN [d EXCEPT !.is_in_set = @ \cup {post[i].key},
                   !.frames_to_publish = Append(@, i)]
    ELSE d

\* one iteration of the "remove streams with same type and index" loop;
\* frames_to_publish holds positions of the post-filter frameset
DedupStep(post, i, d, align_depth) ==
    IF post[i].kind = "points"
    THEN (IF ~d.points_in_set
          THEN [d EXCEPT !.points_in_set = TRUE,
                         !.frames_to_publish = Append(@, i)]
          ELSE d)
    ELSE LET d1 == IF post[i].key \notin d.is_in_set
                   THEN [d EXCEPT !.is_in_set = @ \cup {post[i].key},
                                  !.frames_to_publish = Append(@, i)]
                   ELSE d
         IN  IF align_depth /\ post[i].key = DEPTH /\ post[i].fmt = "Z16"
             THEN [d1 EXCEPT !.is_depth_arrived = TRUE]
             ELSE d1

RECURSIVE Dedup(_, _, _, _)
Dedup(post, i, d, align_depth) ==
    IF i > Len(post) THEN d
    ELSE Dedup(post, i + 1, DedupStep(post, i, d, align_depth), align_depth)

Msg(sink, f, pos, t) == [sink |-> sink, key |-> f.key, fmt |-> f.fmt, pos |-> pos, stamp |-> t]

\* bool has_subscribers, from the subscriber counts of the two publishers
HasSubscribers(info, image) == info # 0 \/ image # 0

\* a variant of publishFrame that counts only the frames it publishes
publishFrame_counted(f, publishers, seq, info, image) ==
    IF f.key \notin publishers
    THEN [seq |-> seq, sinks |-> << >>, threw |-> TRUE]
    ELSE IF info # 0 \/ image # 0
    THEN [seq |-> [seq EXCEPT ![f.key] = @ + 1],
          sinks |-> <<"camera_info", "image">>, threw |-> FALSE]
    ELSE [seq |-> seq, sinks |-> << >>, threw |-> FALSE]

\* a variant of publishFrame that publishes whether or not anyone subscribes
publishFrame_always(f, publishers, seq, info, image) ==
    [seq |-> [seq EXCEPT ![f.key] = @ + 1],
     sinks |-> IF f.key \in publishers THEN <<"camera_info", "image">> ELSE << >>,
     threw |-> f.key \notin publishers]

\* publishFrame on the maps it is given: publishers holds the keys that
\* have an info and an image publisher, seq the counters, info and image
\* the subscriber counts of the key's two publishers
publishFrame(f, publishers, seq, info, image) ==
    LET seq1 == [seq EXCEPT ![f.key] = @ + 1]
    IN  IF f.key \notin publishers             \* info_publishers.at(stream) throws
        THEN [seq |-> seq1, sinks |-> << >>, threw |-> TRUE]
        ELSE IF HasSubscribers(info, image)
        THEN [seq |-> seq1, sinks |-> <<"camera_info", "image">>, threw |-> FALSE]
        ELSE [seq |-> seq1, sinks |-> << >>, threw |-> FALSE]

\* the subscriber counts of a key in an invocation: subs holds the keys
\* whose topic is subscribed to
Subscribers(subs, k) ==
    IF k \in subs THEN [info |-> 1, image |-> 1] ELSE [info |-> 0, image |-> 0]

\* image.get_bytes_per_pixel() of a video frame; bpp stays 1 otherwise
BytesPerPixel(f) ==
    IF f.kind # "video" THEN 1
    ELSE CASE f.fmt = "Z16" -> 2 [] f.fmt = "RGB8" -> 3 [] OTHER -> 1

\* image.get_width() of a video frame: the width its stream was opened
\* with; width stays 0 otherwise
FrameWidth(f) ==
    IF f.kind = "video" /\ _enabled_profiles[f.key] # << >>
    THEN _enabled_profiles[f.key][1].w ELSE 0

\* the sensor_msgs::Image publishFrame builds: encoding.at(stream) and
\* img->step = width * bpp
ImageMsg(f, pos, t) ==
    [sink |-> "image", key |-> f.key, fmt |-> f.fmt, pos |-> pos, stamp |-> t,
     width |-> FrameWidth(f), step |-> FrameWidth(f) * BytesPerPixel(f),
     encoding |-> _encoding[f.key]]

\* the messages a call of publishFrame sent, in order
RECURSIVE Msgs(_, _, _, _, _)
Msgs(sinks, i, f, pos, t) ==
    IF i > Len(sinks) THEN << >>
    ELSE << IF sinks[i] = "image" THEN ImageMsg(f, pos, t)
            ELSE Msg(sinks[i], f, pos, t) >>
         \o Msgs(sinks, i + 1, f, pos, t)

\* publishFrame on the node's own maps: st = [seq, handed, published, threw]
PublishFrame(f, pos, t, st, subs) ==
    LET n == Subscribers(subs, f.key)
        r == publishFrame(f, _image_publishers, st.seq, n.info, n.image)
    IN  [st EXCEPT !.seq = r.seq,
                   !.handed = Append(@, [pos |-> pos, key |-> f.key, fmt |-> f.fmt]),
                   !.published = @ \o Msgs(r.sinks, 1, f, pos, t),
                   !.threw = r.threw]

\* ------------------------------------------------------ publishPointCloud
\* texture coordinates are counted in halves: UnitUV stands for 1.f
UnitUV == 2

\* the texture coordinates of a point: (0,0), (.5,.5), (1,0), (1,1),
\* (2,2) and (-.5,0)
UVs ==
    { [u |-> 0, v |-> 0], [u |-> 1, v |-> 1], [u |-> UnitUV, v |-> 0],
      [u |-> UnitUV, v |-> UnitUV], [u |-> 2 * UnitUV, v |-> 2 * UnitUV],
      [u |-> -1, v |-> 0] }

\* the texture coordinates of an rs2::points frame; point i has vertex i
PointSets == UNION { [1..n -> UVs] : n \in 0..MaxPoints }

\* i >= 0.f && i <= 1.f && j >= 0.f && j <= 1.f
ValidUV(i, j) == i >= 0 /\ i <= UnitUV /\ j >= 0 /\ j <= UnitUV

\* the first pass: num_valid_points
RECURSIVE NumValidPoints(_, _)
NumValidPoints(pts, k) ==
    IF k > Len(pts) THEN 0
    ELSE (IF ValidUV(pts[k].u, pts[k].v) THEN 1 ELSE 0) + NumValidPoints(pts, k + 1)

White == [src |-> "no_color", x |-> 0, y |-> 0]
OutOfBounds == [src |-> "out_of_bounds", x |-> 0, y |-> 0]

\* a variant of SampleColour that reads the texel of the truncated
\* coordinates whatever the buffer is
SampleColour_texel(i, j, use_texture, texture_width, texture_height) ==
    [src |-> "texture", x |-> (i * texture_width) \div UnitUV,
     y |-> (j * texture_height) \div UnitUV]

\* the three bytes read at color_data[offset]: the pixel of the texture they
\* belong to, no_color, or bytes outside the buffer
SampleColour(i, j, use_texture, texture_width, texture_height) ==
    LET pixx == (i * texture_width) \div UnitUV
        pixy == (j * texture_height) \div UnitUV
        offset == (pixy * texture_width + pixx) * 3
        size == IF use_texture THEN texture_width * texture_height * 3 ELSE 3
    IN  IF offset + 2 >= size THEN OutOfBounds
        ELSE IF use_texture
        THEN [src |-> "texture", x |-> (offset \div 3) % texture_width,
              y |-> (offset \div 3) \div texture_width]
        ELSE White

\* one iteration of the second pass: what it writes through the iterators
CloudPoint(pts, k, use_texture, texture_width, texture_height) ==
    LET i == IF use_texture THEN pts[k].u ELSE 0
        j == IF use_texture THEN pts[k].v ELSE 0
    IN  IF ValidUV(i, j)
        THEN << [vertex |-> k,
                 colour |-> SampleColour(i, j, use_texture, texture_width,
                                         texture_height)] >>
        ELSE << >>

RECURSIVE Written(_, _, _, _, _)
Written(pts, k, use_texture, texture_width, texture_height) ==
    IF k > Len(pts) THEN << >>
    ELSE CloudPoint(pts, k, use_texture, texture_width, texture_height)
         \o Written(pts, k + 1, use_texture, texture_width, texture_height)

\* publishPointCloud on a point set; found says whether the frameset holds
\* a video frame of the texture stream. The message holds num_valid_points
\* points; a write past its end or a read outside the texture is undefined
\* behaviour, which ends the process (crash) or goes unnoticed
publishPointCloud(pts, use_texture, found, texture_width, texture_height, crash) ==
    LET n == NumValidPoints(pts, 1)
        w == Written(pts, 1, use_texture, texture_width, texture_height)
        overrun == Len(w) > n
        misread == \E k \in 1..Len(w) : w[k].colour = OutOfBounds
    IN  IF use_texture /\ ~found
        THEN [status |-> "texture_not_found", cloud |-> << >>, undefined |-> FALSE]
        ELSE IF (overrun \/ misread) /\ crash
        THEN [status |-> "crashed", cloud |-> << >>, undefined |-> TRUE]
        ELSE [status |-> "published", cloud |-> SubSeq(w, 1, n),
              undefined |-> overrun \/ misread]

\* the texture selections: no texture stream, a texture stream whose frame
\* is missing, and a texture frame of 2x2 or 3x2 pixels
Textures ==
    { [use_texture |-> FALSE, found |-> FALSE, w |-> 0, h |-> 0],
      [use_texture |-> TRUE, found |-> FALSE, w |-> 0, h |-> 0],
      [use_texture |-> TRUE, found |-> TRUE, w |-> 2, h |-> 2],
      [use_texture |-> TRUE, found |-> TRUE, w |-> 3, h |-> 2] }

\* what a call of publishPointCloud that found its texture can end in, over
\* the point sets a points frame can hold
CloudStatus ==
    [use_texture \in BOOLEAN |->
        { publishPointCloud(pts, use_texture, TRUE, tx.w, tx.h, crash).status :
            pts \in PointSets,
            tx \in {x \in Textures : x.use_texture = use_texture
                                      /\ (x.found \/ ~use_texture)},
            crash \in BOOLEAN }]

\* get_frame(frameset, _pointcloud_texture...) is a video frame
TextureFound(post) ==
    \E i \in 1..Len(post) : post[i].key = _pointcloud_texture /\ post[i].kind = "video"

\* a variant of PublishPoints that does not look at the subscribers
PublishPoints_always(f, pos, t, st, pcSubs, post, status) ==
    IF _pointcloud_texture # AnyStream /\ ~TextureFound(post)
    THEN [st EXCEPT !.projected = TRUE]
    ELSE [st EXCEPT !.projected = TRUE,
                    !.published = Append(@, Msg("points", f, pos, t))]

\* the points branch of the publish loop: publishPointCloud is called when
\* _pointcloud_publisher has subscribers; status is how the call ends
PublishPoints(f, pos, t, st, pcSubs, post, status) ==
    IF ~pcSubs THEN st
    ELSE LET st1 == [st EXCEPT !.projected = TRUE]
         IN  IF _pointcloud_texture # AnyStream /\ ~TextureFound(post) THEN st1
             ELSE IF status = "crashed" THEN [st1 EXCEPT !.crashed = TRUE]
             ELSE [st1 EXCEPT !.published = Append(@, Msg("points", f, pos, t))]

\* the loop over frames_to_publish; an exception ends the invocation
RECURSIVE PublishLoop(_, _, _, _, _, _, _, _)
PublishLoop(post, todo, j, t, st, subs, pcSubs, status) ==
    IF j > Len(todo) \/ st.threw \/ st.crashed THEN st
    ELSE LET f == post[todo[j]]
             st1 == IF f.kind = "points"
                    THEN PublishPoints(f, todo[j], t, st, pcSubs, post, status)
                    ELSE PublishFrame(f, todo[j], t, st, subs)
         IN  PublishLoop(post, todo, j + 1, t, st1, subs, pcSubs, status)

\* ------------------------------------------- publishAlignedDepthToOthers
\* the keys setupPublishers gave an aligned image and camera-info publisher
AlignedPublishers == IF _align_depth THEN _image_publishers \ {DEPTH} ELSE {}

AlignedSink(sink) == IF sink = "camera_info" THEN "aligned_camera_info" ELSE "aligned_image"

RECURSIVE AlignedMsgs(_, _, _, _, _)
AlignedMsgs(sinks, i, k, pos, t) ==
    IF i > Len(sinks) THEN << >>
    ELSE << [sink |-> AlignedSink(sinks[i]), key |-> k, fmt |-> "Z16", pos |-> pos,
             stamp |-> t] >>
         \o AlignedMsgs(sinks, i + 1, k, pos, t)

\* a variant of AlignedStep that aligns whether or not anyone subscribes
AlignedStep_always(f, pos, t, st, asubs) ==
    IF StreamType[f.key] = StreamType[DEPTH] THEN st
    ELSE LET r == publishFrame(f, AlignedPublishers, st.aseq, 1, 1)
         IN  [st EXCEPT !.aseq = r.seq, !.threw = r.threw,
                        !.published = @ \o AlignedMsgs(r.sinks, 1, f.key, pos, t)]

\* one iteration of the loop of publishAlignedDepthToOthers: f is a frame of
\* the frameset, asubs the keys whose aligned topic is subscribed to
AlignedStep(f, pos, t, st, asubs) ==
    IF StreamType[f.key] = StreamType[DEPTH] THEN st
    ELSE IF f.key \notin AlignedPublishers
    THEN [st EXCEPT !.threw = TRUE]     \* _depth_aligned_info_publisher.at(sip)
    ELSE LET n == Subscribers(asubs, f.key)
         IN  IF HasSubscribers(n.info, n.image)
             THEN LET r == publishFrame(f, AlignedPublishers, st.aseq, n.info, n.image)
                  IN  [st EXCEPT !.aseq = r.seq, !.threw = r.threw,
                                 !.published =
                                     @ \o AlignedMsgs(r.sinks, 1, f.key, pos, t)]
             ELSE st

RECURSIVE publishAlignedDepthToOthers(_, _, _, _, _)
publishAlignedDepthToOthers(frames, i, t, st, asubs) ==
    IF i > Len(frames) \/ st.threw THEN st
    ELSE publishAlignedDepthToOthers(frames, i + 1, t,
                                     AlignedStep(frames[i], i, t, st, asubs), asubs)

KeysIn(frames) == {frames[i].key : i \in 1..Len(frames)}

\* the choices that make a difference: a frame is added only to a frameset
\* with a depth frame, a point cloud only by the pointcloud filter
Adds(frame) ==
    /\ frame.composite /\ HasDepth(frame.frames)
    /\ \E i \in 1..Len(_filters) : Produced(_filters[i]) # << >>
\* a variant of FrontChoices in which a block's frame comes after the
\* frames of its input
FrontChoices_back(frame) == {FALSE}

\* a processing block returns its own frame ahead of the frames of its
\* input: of the two DEPTH frames the colorizer leaves, the deduplication
\* removes "the original one"
FrontChoices(frame) == IF Adds(frame) THEN {TRUE} ELSE {FALSE}
PointSubChoices(frame) ==
    IF Adds(frame) /\ Contains(_filters, "pointcloud") THEN BOOLEAN ELSE {FALSE}

\* the outcomes of publishPointCloud that make a difference
StatusChoices(frame) ==
    IF Adds(frame) /\ Contains(_filters, "pointcloud")
    THEN CloudStatus[_pointcloud_texture # AnyStream] ELSE {"published"}

\* the subscriptions to the aligned topics that make a difference
AlignSubChoices(frame) ==
    IF _align_depth /\ frame.composite /\ HasDepth(frame.frames)
    THEN SUBSET AlignedPublishers ELSE {{}}

OutOfRange == "std::out_of_range"

\* a variant of Caught that lets every exception through
Caught_none(ex) == FALSE

\* catch(const std::exception& ex): the exceptions of the standard library,
\* of the SDK and of OpenCV derive from std::exception
Caught(ex) == ex \in {OutOfRange, "rs2::error", "cv::Exception"}

\* the body of the try block after the timestamp, on the frame(s) of one
\* invocation: filters, deduplication, publishing and alignment for a
\* frameset, publishFrame for a single frame
FrameBody(frame, t, front, pcSubs, subs, status, asubs) ==
    LET fs == IF frame.composite
              THEN ApplyFilters(_filters, 1,
                                [frames |-> frame.frames, applied |-> << >>], front)
              ELSE [frames |-> frame.frames, applied |-> << >>]
        post == fs.frames
        d == Dedup(post, 1, NoDedup, _align_depth)
        todo == IF frame.composite THEN d.frames_to_publish ELSE <<1>>
        st0 == [seq |-> _seq, aseq |-> _depth_aligned_seq, handed |-> << >>,
                published |-> << >>, threw |-> FALSE, crashed |-> FALSE,
                projected |-> FALSE]
        st1 == PublishLoop(post, todo, 1, t, st0, subs, pcSubs, status)
        align == /\ frame.composite /\ _align_depth /\ d.is_depth_arrived
                 /\ ~st1.threw /\ ~st1.crashed
    IN  [post |-> post, applied |-> fs.applied, todo |-> todo, align |-> align,
         st |-> IF align THEN publishAlignedDepthToOthers(post, 1, t, st1, asubs)
                ELSE st1]

\* _send_counter after the body: publishFrame and publishPointCloud set it
\* when they publish
SendCounter(send_counter, published) == send_counter \/ published # << >>

\* a variant of CounterDue that does not care how the body ended
CounterDue_always(reached, counter_enabled, send_counter) ==
    counter_enabled /\ send_counter

\* if(_counter_enabled && _send_counter), which an exception in the body
\* skips (reached is false)
CounterDue(reached, counter_enabled, send_counter) ==
    reached /\ counter_enabled /\ send_counter

\* image_counter_msg
CounterMsg(value, t) == [sink |-> "counter", value |-> value, stamp |-> t]

\* the rest of the callback after the timestamp: the try block's body up to
\* the publication of the counter message, and the catch handler
FramePublish(th) ==
    /\ Alive
    /\ pc[th] = "publish"
    /\ \E front \in FrontChoices(cur[th]), pcSubs \in PointSubChoices(cur[th]),
          subs \in SUBSET KeysIn(cur[th].frames),
          status \in StatusChoices(cur[th]), asubs \in AlignSubChoices(cur[th]) :
          \E r \in {FrameBody(cur[th], stamp[th], front, pcSubs, subs, status, asubs)} :
          \E ex \in {IF r.st.threw THEN OutOfRange ELSE NoException} :
              /\ _seq' = r.st.seq
              /\ _depth_aligned_seq' = r.st.aseq
              /\ out' = [out EXCEPT ![th] =
                           [@ EXCEPT !.post = r.post, !.handed = r.st.handed,
                                     !.published = r.st.published,
                                     !.applied = r.applied,
                                     !.done = TRUE, !.todo = r.todo, !.threw = ex,
                                     !.pcSubs = pcSubs, !.projected = r.st.projected,
                                     !.asubs = asubs, !.aligned = r.align,
                                     !.counter =
                                        IF CounterDue(~r.st.threw /\ ~r.st.crashed,
                                                      _counter_enabled,
                                                      SendCounter(_send_counter, r.st.published))
                                        THEN << CounterMsg(_image_counter, stamp[th]) >>
                                        ELSE << >>]]
              /\ _send_counter' = SendCounter(_send_counter, r.st.published)
              /\ counters_sent' =
                    IF CounterDue(~r.st.threw /\ ~r.st.crashed, _counter_enabled,
                                  SendCounter(_send_counter, r.st.published))
                    THEN counters_sent + 1 ELSE counters_sent
              /\ failed' = IF r.st.threw /\ Caught(ex) THEN failed + 1 ELSE failed
              /\ phase' = IF r.st.crashed \/ (r.st.threw /\ ~Caught(ex))
                          THEN "dead" ELSE phase
              /\ fatal' = CASE r.st.crashed -> "memory_error"
                            [] r.st.threw /\ ~Caught(ex) -> "uncaught_exception"
                            [] OTHER -> fatal
    /\ pc' = [pc EXCEPT ![th] = "done"]
    /\ UNCHANGED <<device, cfgVars, reqVars, descVars, devVars,
                   _filters, timeVars, cur, stamp, warned, fnVars, imu_published,
                   histVars, _counter_enabled, _image_counter>>

\* the end of the callback: after a counter message _image_counter++ and
\* _send_counter = false; then it returns to the SDK and its locals are gone
Return(th) ==
    /\ Alive
    /\ pc[th] = "done"
    /\ pc' = [pc EXCEPT ![th] = "idle"]
    /\ cur' = [cur EXCEPT ![th] = NoFrame]
    /\ stamp' = [stamp EXCEPT ![th] = 0]
    /\ out' = [out EXCEPT ![th] = NoOut]
    /\ IF out[th].counter # << >>
       THEN _image_counter' = _image_counter + 1 /\ _send_counter' = FALSE
       ELSE UNCHANGED <<_image_counter, _send_counter>>
    /\ UNCHANGED <<phase, fatal, device, cfgVars, reqVars, descVars, devVars,
                   _filters, timeVars, _seq, _depth_aligned_seq, failed, warned, fnVars, imu_published, histVars,
                   _counter_enabled, counters_sent>>

\* ------------------------------------------------------- the HID callback
\* a variant of HidNext that never drops a sample
HidNext_nodrop(initialized) == "hid_publish"

\* if (false == _intialize_time_base) return;
HidNext(initialized) == IF initialized = FALSE THEN "idle" ELSE "hid_publish"

\* the motion module started with the HID lambda hands it one sample; the
\* lambda starts by testing _intialize_time_base and drops the sample
DeliverMotion(m) ==
    /\ Alive
    /\ sensor[m].st = "streaming" /\ sensor[m].target = "hid_callback"
    /\ pc[m] = "idle"
    /\ deliveries < MaxDeliveries
    /\ \E k \in OpenedKeys(m), ts \in HwTimes :
          cur' = [cur EXCEPT ![m] =
                    IF HidNext(_intialize_time_base) = "idle" THEN NoFrame
                    ELSE [composite |-> FALSE, frames |-> <<VideoFrame(k)>>, ts |-> ts]]
    /\ pc' = [pc EXCEPT ![m] = HidNext(_intialize_time_base)]
    /\ deliveries' = deliveries + 1
    /\ UNCHANGED <<phase, fatal, device, cfgVars, reqVars, descVars, devVars,
                   _filters, timeVars, stamp, out, _seq, _depth_aligned_seq, failed, warned, fnVars, cntVars, imu_published,
                   initializers, origin>>

HidPublish(th) ==
    /\ Alive
    /\ pc[th] = "hid_publish"
    /\ pc' = [pc EXCEPT ![th] = "done"]
    /\ \E subs \in BOOLEAN, g \in Garbage(_camera_time_base) :
          LET f == cur[th].frames[1]
              t == _ros_time_base + MsToSec(cur[th].ts - ReadDouble(_camera_time_base, g))
          IN  IF subs
              THEN /\ _seq' = [_seq EXCEPT ![f.key] = @ + 1]
                   /\ imu_published' = imu_published + 1
                   /\ stamp' = [stamp EXCEPT ![th] = t]
                   /\ out' = [out EXCEPT ![th] =
                                [NoOut EXCEPT !.published = << Msg("imu", f, 1, t) >>,
                                              !.done = TRUE]]
              ELSE /\ out' = [out EXCEPT ![th] = [NoOut EXCEPT !.done = TRUE]]
                   /\ UNCHANGED <<_seq, imu_published, stamp>>
    /\ UNCHANGED <<phase, fatal, device, cfgVars, reqVars, descVars, devVars,
                   _filters, timeVars, cur, _depth_aligned_seq, failed, warned, fnVars, cntVars, histVars>>

\* ----------------------------------------------------------- toggleSensors
\* sens.start(_syncer) / sens.stop() on one sensor; a call the sensor's
\* state does not allow throws wrong_api_call_sequence_error, which is caught
ToggleSensor(s, enabled) ==
    IF enabled
    THEN (IF s.st = "open" THEN [st |-> "streaming", target |-> "syncer"] ELSE s)
    ELSE (IF s.st = "streaming" THEN [st |-> "open", target |-> "none"] ELSE s)

\* sens.stop() returns once no callback of the sensor is executing
Stoppable(m) == sensor[m].st = "streaming" => pc[m] = "idle"

toggleSensors(enabled) ==
    /\ phase = "up"
    /\ enabled \/ \A m \in SensorModules : Stoppable(m)
    /\ sensor' = [m \in SensorModules |->
                    IF \E k \in StreamKeys : _sensors[k] = m
                    THEN ToggleSensor(sensor[m], enabled) ELSE sensor[m]]
    /\ UNCHANGED <<phase, fatal, device, cfgVars, reqVars, descVars, _sensors,
                   syncer_started, _enabled_profiles, _image_publishers,
                   _filters, timeVars, thrVars, _seq, _depth_aligned_seq, failed, warned, fnVars, cntVars, imu_published,
                   histVars>>

\* ---------------------------------------------------------- specifications
\* the node after construction; no function is applied on its own
Init == Constructed /\ call = NoCall /\ ret = NoRet

\* the sessions of Spec: direct mode with two image modules, and
\* synchronized mode with the motion module, with and without a depth
\* stream and with and without a bad filter
MainParams ==
    [align_depth : {FALSE}, enable_pointcloud : {FALSE},
     filters : { <<"">> }, enable_sync : {FALSE},
     ros_time_offset : {0}, enable : { {DEPTH, COLOR} },
     enable_imu : {FALSE}, req : {AnyRequest},
     pointcloud_texture : {COLOR}]
    \cup
    [align_depth : {FALSE}, enable_pointcloud : {FALSE},
     filters : { <<"">>, <<"bogus">> }, enable_sync : {TRUE},
     ros_time_offset : {0}, enable : { {DEPTH}, {COLOR} },
     enable_imu : {TRUE}, req : {AnyRequest},
     pointcloud_texture : {COLOR}]

\* the sessions of SpecFrames: synchronized mode without the motion module
FrameParams ==
    [align_depth : {FALSE}, enable_pointcloud : BOOLEAN,
     filters : { <<"">>, <<"colorizer">>, <<"temporal", "disparity", "spatial">> },
     enable_sync : {TRUE},
     ros_time_offset : RosTimeOffsets \ {0}, enable : { {DEPTH, INFRA1, COLOR} },
     enable_imu : {FALSE}, req : {AnyRequest},
     pointcloud_texture : {COLOR}]

\* every request string of at most MaxTokens tokens
TokenLists == UNION { [1..n -> Tokens] : n \in 1..MaxTokens }

FilterParams ==
    [align_depth : BOOLEAN, enable_pointcloud : BOOLEAN,
     filters : TokenLists, enable_sync : {FALSE},
     ros_time_offset : {0}, enable : { {DEPTH, COLOR} },
     enable_imu : {FALSE}, req : {AnyRequest},
     pointcloud_texture : {COLOR}]

\* publishTopics() after getParameters()
Startup ==
    \/ setupDevice
    \/ setupPublishers
    \/ setupStreams
    \/ setupFilters
    \/ publishStaticTransforms

\* the steps of frame_callback on the thread that runs it
ImageCallback ==
    \/ \E th \in Threads : InitFlag(th)
    \/ \E th \in Threads : InitRos(th)
    \/ \E th \in Threads : InitCam(th)
    \/ \E th \in Threads : FrameStamp(th)
    \/ \E th \in Threads : FramePublish(th)
    \/ \E th \in Threads : Return(th)

Reconfigure == \E enabled \in BOOLEAN : toggleSensors(enabled)

Next ==
    \/ getParameters(MainParams)
    \/ Startup
    \/ \E m \in SensorModules : DeliverFrame(m)
    \/ DeliverFrameset
    \/ ImageCallback
    \/ \E m \in SensorModules : DeliverMotion(m)
    \/ \E th \in Threads : HidPublish(th)
    \/ Reconfigure

\* the whole session: start-up, the SDK's threads, dynamic reconfigure
Spec == Init /\ [][Next]_vars

NextFrames ==
    \/ getParameters(FrameParams)
    \/ Startup
    \/ DeliverFrameset
    \/ ImageCallback

\* synchronized sessions: the syncer's thread runs frame_callback on
\* framesets; dynamic reconfigure is left to Spec and SpecAlign
SpecFrames == Init /\ [][NextFrames]_vars

NextFilters ==
    \/ getParameters(FilterParams)
    \/ Startup

\* start-up alone, over every filter request string
SpecFilters == Init /\ [][NextFilters]_vars

\* ------------------------------------------------------------------ claims
\* sessions with depth alignment: depth and colour with the colorizer, and
\* depth with the motion module
AlignParams ==
    [align_depth : {TRUE}, enable_pointcloud : {FALSE},
     filters : { <<"colorizer">> }, enable_sync : {FALSE},
     ros_time_offset : {0}, enable : { {DEPTH, COLOR} },
     enable_imu : {FALSE}, req : {AnyRequest},
     pointcloud_texture : {COLOR}]
    \cup
    [align_depth : {TRUE}, enable_pointcloud : {FALSE},
     filters : { <<"">> }, enable_sync : {FALSE},
     ros_time_offset : {0}, enable : { {DEPTH} },
     enable_imu : {TRUE}, req : {AnyRequest},
     pointcloud_texture : {COLOR}]

NextAlign ==
    \/ getParameters(AlignParams)
    \/ Startup
    \/ DeliverFrameset
    \/ ImageCallback
    \/ \E m \in SensorModules : DeliverMotion(m)
    \/ \E th \in Threads : HidPublish(th)
    \/ Reconfigure

SpecAlign == Init /\ [][NextAlign]_vars

\* start-up alone, over requests for the depth and the colour stream
ImageRequests == [w : {0, 640, 1920}, h : {0, 480}, fps : {0, 30}]
\* the gyro_fps values asked for: one the motion module offers, one it does not
GyroRates == {200, 400}

NegotiateParams ==
    [align_depth : {FALSE}, enable_pointcloud : {FALSE},
     filters : { <<"">> }, enable_sync : {FALSE},
     ros_time_offset : {0}, enable : { {DEPTH, COLOR}, {DEPTH, INFRA1, COLOR} },
     enable_imu : BOOLEAN,
     req : { [k \in StreamKeys |->
                CASE k = DEPTH -> d [] k = COLOR -> c
                  [] k = GYRO -> [AnyRequest[k] EXCEPT !.fps = g]
                  [] OTHER -> AnyRequest[k]] :
             d \in ImageRequests, c \in ImageRequests, g \in GyroRates },
     pointcloud_texture : {COLOR}]

NextNegotiate ==
    \/ getParameters(NegotiateParams)
    \/ Startup

SpecNegotiate == Init /\ [][NextNegotiate]_vars

\* the deduplication loop of frame_callback applied to any post-filter
\* frameset of up to MaxFrames frames
DedupFrames ==
    { [key |-> DEPTH, fmt |-> "Z16", kind |-> "video"],
      [key |-> DEPTH, fmt |-> "RGB8", kind |-> "video"],
      [key |-> DEPTH, fmt |-> "XYZ32F", kind |-> "points"],
      [key |-> COLOR, fmt |-> "RGB8", kind |-> "video"] }

DedupCalls ==
    [fn : {"Dedup"},
     post : UNION { [1..n -> DedupFrames] : n \in 0..MaxFrames },
     align_depth : BOOLEAN]

CallDedup ==
    /\ call.fn = "Dedup" /\ ret = NoRet
    /\ ret' = [fn |-> "Dedup", d |-> Dedup(call.post, 1, NoDedup, call.align_depth)]
    /\ UNCHANGED <<phase, fatal, device, cfgVars, reqVars, descVars, devVars, _filters,
                   timeVars, thrVars, _seq, _depth_aligned_seq, failed, warned,
                   imu_published, histVars, cntVars, call>>

InitDedup == Constructed /\ call \in DedupCalls /\ ret = NoRet

SpecDedup == InitDedup /\ [][CallDedup]_vars

\* publishFrame applied to one frame, over the publishers that exist and the
\* subscriber counts of the key's two publishers
PublishFrameCalls ==
    [fn : {"publishFrame"},
     f : { [key |-> DEPTH, fmt |-> "Z16", kind |-> "video"],
           [key |-> COLOR, fmt |-> "RGB8", kind |-> "video"],
           [key |-> GYRO, fmt |-> "MOTION_XYZ32F", kind |-> "motion"] },
     frame_number : 0..MaxFrameNumber,
     publishers : SUBSET {DEPTH, COLOR},
     info : 0..MaxSubscribers,
     image : 0..MaxSubscribers]

\* img->header.seq of the image message publishFrame builds, copied to
\* cam_info.header.seq: the frame number the device gave the frame; the
\* counter just incremented is not read
HeaderSeq(frame_number, seq) == frame_number

CallPublishFrame ==
    /\ call.fn = "publishFrame" /\ ret = NoRet
    /\ \E r \in {publishFrame(call.f, call.publishers, _seq, call.info, call.image)} :
          ret' = [fn |-> "publishFrame", r |-> r,
                  header_seq |-> HeaderSeq(call.frame_number, r.seq[call.f.key])]
    /\ UNCHANGED <<phase, fatal, device, cfgVars, reqVars, descVars, devVars, _filters,
                   timeVars, thrVars, _seq, _depth_aligned_seq, failed, warned,
                   imu_published, histVars, cntVars, call>>

InitPublishFrame == Constructed /\ call \in PublishFrameCalls /\ ret = NoRet

SpecPublishFrame == InitPublishFrame /\ [][CallPublishFrame]_vars

\* publishPointCloud applied to a point set
PointCloudCalls == [fn : {"publishPointCloud"}, pts : PointSets, texture : Textures]

CallPublishPointCloud ==
    /\ call.fn = "publishPointCloud" /\ ret = NoRet
    /\ \E crash \in BOOLEAN :
          ret' = [fn |-> "publishPointCloud",
                  r |-> publishPointCloud(call.pts, call.texture.use_texture,
                                          call.texture.found, call.texture.w,
                                          call.texture.h, crash)]
    /\ UNCHANGED <<phase, fatal, device, cfgVars, reqVars, descVars, devVars, _filters,
                   timeVars, thrVars, _seq, _depth_aligned_seq, failed, warned,
                   imu_published, histVars, cntVars, call>>

InitCloud == Constructed /\ call \in PointCloudCalls /\ ret = NoRet

SpecCloud == InitCloud /\ [][CallPublishPointCloud]_vars

\* C1: the time base is one-way. Once _intialize_time_base is true no step
\* (image callback, inertial callback, toggleSensors) makes it false again,
\* and a frame callback is past its first-frame branch only with the flag set,
\* so the first frame or frameset delivered sets it.
C1_TimeBaseOneWay ==
    [][ /\ (_intialize_time_base => _intialize_time_base')
        /\ \A th \in Threads :
              pc'[th] \in {"init_ros", "init_cam", "stamp", "publish"}
                  => _intialize_time_base' ]_vars

\* C1 witness: the time base is set, an inertial sample has been published
\* and toggleSensors(false) has stopped the stereo module
C1_Witness ==
    /\ _intialize_time_base
    /\ imu_published > 0
    /\ sensor[StereoModule].st = "open"

\* C2: the transition to the initialized time base is performed by at most
\* one callback invocation per session.
C2_SingleInitializer == initializers <= 1

\* C3: with synchronized mode off, a frame callback with hardware timestamp
\* T1 stamps W0 + (T1 - T0), W0 and T0 being the origins the first frame
\* callback of the session recorded.
C3_DirectStamp ==
    \A th \in Threads :
        (/\ pc[th] = "publish"
         /\ ~_sync_frames
         /\ origin.ros # NoOrigin.ros
         /\ origin.cam # NoOrigin.cam)
            => stamp[th] = origin.ros + MsToSec(cur[th].ts - origin.cam)

\* C4: with synchronized mode on, a frame callback stamps every output with
\* the wall clock it read plus _ros_time_offset, whatever the hardware
\* timestamp and the time base are.
C4_SyncStamp ==
    \A th \in Threads :
        (pc[th] \in {"publish", "done"} /\ _sync_frames)
            => /\ stamp[th] = out[th].wall + _ros_time_offset
               /\ \A i \in 1..Len(out[th].published) :
                     out[th].published[i].stamp = out[th].wall + _ros_time_offset

\* C4 witness: a frameset has been published in synchronized mode with a
\* stamp that is not the one the time base gives
C4_Witness ==
    /\ _sync_frames
    /\ pc[SyncerThread] = "done"
    /\ out[SyncerThread].published # << >>
    /\ stamp[SyncerThread] #
          _ros_time_base + MsToSec(cur[SyncerThread].ts - _camera_time_base)

\* C5: while the time base is uninitialized no inertial sample is published
\* and no inertial sequence counter moves: the inertial callback drops the
\* sample and never writes the time base; a frame delivered to the frame
\* callback enters it and leaves its first part only for the publish step,
\* with the frame it was given.
C5_InertialDropped ==
    [][ /\ (~_intialize_time_base'
               => imu_published' = 0 /\ _seq'[GYRO] = 0 /\ _seq'[ACCEL] = 0)
        /\ \A m \in SensorModules :
              (DeliverMotion(m) /\ ~_intialize_time_base)
                  => pc'[m] = "idle" /\ _seq' = _seq /\ imu_published' = imu_published
        /\ ((\E m \in SensorModules : DeliverMotion(m)) \/ (\E th \in Threads : HidPublish(th)))
              => UNCHANGED timeVars
        /\ \A m \in SensorModules : DeliverFrame(m) => pc'[m] \in {"init_flag", "stamp"}
        /\ DeliverFrameset => pc'[SyncerThread] \in {"init_flag", "stamp"}
        /\ \A th \in Threads :
              pc[th] \in {"init_flag", "init_ros", "init_cam", "stamp"}
                  => /\ pc'[th] \in {"init_flag", "init_ros", "init_cam", "stamp", "publish"}
                     /\ cur'[th] = cur[th] ]_vars

\* C5 witness: an inertial sample came and went while the first frameset is
\* in the initializing branch
C5_Witness ==
    /\ ~_intialize_time_base
    /\ deliveries = 2
    /\ pc[SyncerThread] = "init_flag"
    /\ pc[MotionModule] = "idle"
    /\ sensor[MotionModule].target = "hid_callback"

\* C6: a request with "disparity" anywhere gives a pipeline that starts with
\* disparity_start, has disparity_end after every spatial, temporal and
\* decimation stage, and keeps those stages in the order requested.
C6_DisparityBrackets ==
    (phase \in {"filters", "up"} /\ Contains(_filters_str, "disparity")) =>
        LET Std(x) == x \in {"spatial", "temporal", "decimation"}
        IN  /\ Len(_filters) >= 2
            /\ _filters[1] = "disparity_start"
            /\ \E e \in 1..Len(_filters) :
                  /\ _filters[e] = "disparity_end"
                  /\ \A i \in 1..Len(_filters) : Std(_filters[i]) => i < e
            /\ SelectSeq(_filters, Std) = SelectSeq(_filters_str, Std)

\* C6 witness: "temporal,disparity,spatial"
C6_Witness ==
    /\ phase = "filters"
    /\ _filters_str = <<"temporal", "disparity", "spatial">>
    /\ _filters = <<"disparity_start", "temporal", "spatial", "disparity_end">>

\* C7: the pipeline has at most one colorizer and at most one pointcloud
\* stage; the colorizer comes after every disparity, spatial, temporal and
\* decimation stage and the pointcloud stage is the last of the list.
C7_ColorizerPointcloudLast ==
    phase \in {"filters", "up"} =>
        LET n == Len(_filters)
            At(x) == {i \in 1..n : _filters[i] = x}
            Earlier == {"disparity_start", "disparity_end", "spatial",
                        "temporal", "decimation"}
        IN  /\ Cardinality(At("colorizer")) <= 1
            /\ Cardinality(At("pointcloud")) <= 1
            /\ \A i \in At("colorizer"), j \in 1..n :
                  _filters[j] \in Earlier => j < i
            /\ \A i \in At("pointcloud") : i = n

\* C7 witness: "colorizer,pointcloud,disparity"
C7_Witness ==
    /\ phase = "filters"
    /\ _filters_str = <<"colorizer", "pointcloud", "disparity">>
    /\ _filters = <<"disparity_start", "disparity_end", "colorizer", "pointcloud">>

\* C8: a non-empty token that is none of the six known ones ends setupFilters
\* at that token: it never returns, the tokens after it are not processed
\* and no disparity, colorizer or pointcloud stage is added; an empty token
\* is not an error.
C8_UnknownTokenFatal ==
    LET bad == {i \in 1..Len(_filters_str) : _filters_str[i] \notin KnownTokens \cup {""}}
        Std(x) == x \in {"spatial", "temporal", "decimation"}
    IN  /\ phase \in {"filters", "up"} => bad = {}
        /\ fatal = "unknown_filter" =>
              /\ bad # {}
              /\ phase = "dead"
              /\ _filters = SelectSeq(SubSeq(_filters_str, 1, Min(bad) - 1), Std)

\* C8 witness: "spatial,bogus,colorizer" stops at the second token
C8_Witness ==
    /\ phase = "dead"
    /\ fatal = "unknown_filter"
    /\ _filters_str = <<"spatial", "bogus", "colorizer">>
    /\ _filters = <<"spatial">>

\* C9: a session whose start-up ends in a fatal error has opened no sensor
\* and has run no callback.
C9_FailBeforeStreams ==
    phase = "dead" =>
        /\ \A m \in SensorModules : sensor[m].st = "closed"
        /\ deliveries = 0

\* C10: of the frames of the post-filter frameset that are not point clouds,
\* publishFrame gets at most one per stream key, the first in iteration
\* order, and only that one reaches the image and camera-info sinks.
C10_DedupKeepsFirst ==
    \A th \in Threads :
        (pc[th] = "done" /\ cur[th].composite) =>
            LET post == out[th].post
                handed == out[th].handed
                published == out[th].published
                First(k) == Min({i \in 1..Len(post) :
                                   post[i].key = k /\ post[i].kind # "points"})
            IN  /\ \A a, b \in 1..Len(handed) :
                      handed[a].key = handed[b].key => a = b
                /\ \A a \in 1..Len(handed) :
                      /\ post[handed[a].pos].kind # "points"
                      /\ handed[a].pos = First(handed[a].key)
                /\ \A a \in 1..Len(published) :
                      published[a].sink \in {"image", "camera_info"}
                          => published[a].pos = First(published[a].key)

\* C10 witness: the frameset held two depth frames and the first was published
C10_Witness ==
    /\ pc[SyncerThread] = "done"
    /\ \E i, j \in 1..Len(out[SyncerThread].post) :
          /\ i < j
          /\ out[SyncerThread].post[i].key = DEPTH
          /\ out[SyncerThread].post[j].key = DEPTH
          /\ out[SyncerThread].post[i].kind = "video"
          /\ out[SyncerThread].post[j].kind = "video"
          /\ \E a \in 1..Len(out[SyncerThread].published) :
                /\ out[SyncerThread].published[a].sink = "image"
                /\ out[SyncerThread].published[a].pos = i

C14_DemandGated ==
    (ret.fn = "publishFrame" /\ ~ret.r.threw) =>
        LET n(sink) == Cardinality({i \in 1..Len(ret.r.sinks) : ret.r.sinks[i] = sink})
        IN  /\ (call.info = 0 /\ call.image = 0) => ret.r.sinks = << >>
            /\ (call.info > 0 \/ call.image > 0) =>
                  /\ n("camera_info") = 1 /\ n("image") = 1
                  /\ Len(ret.r.sinks) = 2

C14_Witness ==
    /\ ret.fn = "publishFrame" /\ ~ret.r.threw
    /\ call.info = 0 /\ call.image > 0
    /\ Len(ret.r.sinks) = 2

\* C17: the published cloud holds exactly the points of the point set whose
\* texture coordinates lie in the closed unit square, in input order and
\* with their own vertex, whether or not a texture stream is selected.
C17_ValidPointsOnly ==
    (ret.fn = "publishPointCloud" /\ ret.r.status = "published") =>
        LET pts == call.pts
            cloud == ret.r.cloud
            valid == {k \in 1..Len(pts) :
                        /\ 0 <= pts[k].u /\ pts[k].u <= UnitUV
                        /\ 0 <= pts[k].v /\ pts[k].v <= UnitUV}
        IN  /\ {cloud[m].vertex : m \in 1..Len(cloud)} = valid
            /\ \A m \in 1..(Len(cloud) - 1) : cloud[m].vertex < cloud[m + 1].vertex

\* C18: with no texture stream (RS2_STREAM_ANY) every valid point of the
\* published cloud has the colour (255,255,255).
C18_NoTextureWhite ==
    (/\ ret.fn = "publishPointCloud" /\ ret.r.status = "published"
     /\ ~call.texture.use_texture) =>
        \A m \in 1..Len(ret.r.cloud) : ret.r.cloud[m].colour.src = "no_color"

C18_Witness ==
    /\ ret.fn = "publishPointCloud" /\ ret.r.status = "published"
    /\ ~call.texture.use_texture
    /\ Len(call.pts) = 2 /\ Len(ret.r.cloud) = 2
    /\ ~ret.r.undefined

\* C19: the colour of every point of the published cloud is read from the
\* texture, at the row-major position of column trunc(u * texture_width),
\* row trunc(v * texture_height); for a 2x2 texture and the points (0,0), (1,1), (2,2) the cloud
\* is published with the first point coloured from texel (0,0), the second
\* from texel (1,1), and the third dropped.
C19_TextureSampling ==
    (ret.fn = "publishPointCloud" /\ call.texture.use_texture /\ call.texture.found) =>
        /\ ret.r.status = "published" =>
              \A m \in 1..Len(ret.r.cloud) :
                 LET p == call.pts[ret.r.cloud[m].vertex]
                     c == ret.r.cloud[m].colour
                 IN  /\ c.src = "texture"
                     /\ c.y * call.texture.w + c.x =
                           ((p.v * call.texture.h) \div UnitUV) * call.texture.w
                           + (p.u * call.texture.w) \div UnitUV
        /\ (/\ call.texture.w = 2 /\ call.texture.h = 2
            /\ call.pts = << [u |-> 0, v |-> 0], [u |-> UnitUV, v |-> UnitUV],
                             [u |-> 2 * UnitUV, v |-> 2 * UnitUV] >>) =>
              /\ ret.r.status = "published"
              /\ Len(ret.r.cloud) = 2
              /\ ret.r.cloud[1] = [vertex |-> 1, colour |-> [src |-> "texture", x |-> 0, y |-> 0]]
              /\ ret.r.cloud[2] = [vertex |-> 2, colour |-> [src |-> "texture", x |-> 1, y |-> 1]]

\* C12: no callback invocation publishes both a point cloud message and a
\* colorized (RGB8) DEPTH image from one frameset.
C12_CloudOrColorized ==
    \A th \in Threads :
        ~ /\ \E a \in 1..Len(out[th].published) : out[th].published[a].sink = "points"
          /\ \E b \in 1..Len(out[th].published) :
                /\ out[th].published[b].sink = "image"
                /\ out[th].published[b].key = DEPTH
                /\ out[th].published[b].fmt = "RGB8"

\* C13: an exception raised while the frame callback processes its frame or
\* frameset is caught in that invocation: it never reaches the SDK's
\* thread, and the step that raises and catches it leaves the session
\* active, with the sensors, the syncer and the time base as they were, so
\* that the next invocation is processed as usual.
C13_ExceptionContained ==
    /\ [](fatal # "uncaught_exception")
    /\ [][\A th \in Threads :
            (pc[th] = "publish" /\ pc'[th] = "done" /\ out'[th].threw # NoException)
                => /\ phase' = phase /\ fatal' = fatal
                   /\ sensor' = sensor /\ syncer_started' = syncer_started
                   /\ _intialize_time_base' = _intialize_time_base
                   /\ _ros_time_base' = _ros_time_base
                   /\ _camera_time_base' = _camera_time_base]_vars

\* an invocation that publishes after an earlier one ended in the handler
C13_Witness ==
    /\ failed >= 1
    /\ Alive
    /\ \E th \in Threads :
          /\ out[th].done /\ out[th].threw = NoException
          /\ \E a \in 1..Len(out[th].published) : out[th].published[a].sink = "image"

\* the invocations of a thread that kept a points frame for publishing
RetainedPoints(th) ==
    /\ out[th].done
    /\ \E j \in 1..Len(out[th].todo) : out[th].post[out[th].todo[j]].kind = "points"

PointsPublished(th) ==
    \E a \in 1..Len(out[th].published) : out[th].published[a].sink = "points"

FramesetDone(th) == out[th].done /\ cur[th].composite

RawDepthIn(frames) ==
    \E i \in 1..Len(frames) :
        frames[i].key = DEPTH /\ frames[i].fmt = "Z16" /\ frames[i].kind = "video"

AlignedImages(th, k) ==
    {a \in 1..Len(out[th].published) :
        out[th].published[a].sink = "aligned_image" /\ out[th].published[a].key = k}

C20_FirstMatchInOrder ==
    [][phase = "publishers" =>
         \A k \in ImageKeys :
            _enable[k] =>
               LET hw == HwProfiles(_sensors[k])
                   fits == {i \in 1..Len(hw) :
                              /\ hw[i].fmt = _format[k]
                              /\ hw[i].index = StreamIndex[k]
                              /\ _width[k] \in {0, hw[i].w}
                              /\ _height[k] \in {0, hw[i].h}
                              /\ _fps[k] \in {0, hw[i].fps}}
               IN  fits # {} =>
                      /\ \E i \in fits :
                            /\ \A j \in fits : i <= j
                            /\ _enabled_profiles'[k] = << hw[i] >>
                      /\ _enable'[k]
                      /\ k \notin warned']_vars

\* depth asked at width 640 gets the second profile of the stereo module,
\* colour asked at any size the first of the RGB camera
C20_Witness ==
    /\ phase = "streams"
    /\ _enabled_profiles[DEPTH] = << HwProfiles(StereoModule)[2] >>
    /\ _enabled_profiles[COLOR] = << HwProfiles(RGBCamera)[1] >>
    /\ _enable[DEPTH] /\ _enable[COLOR] /\ warned = {}

\* the positions of a key's sensor list that satisfy the key's request
Fits(k) ==
    LET hw == HwProfiles(_sensors[k])
    IN  {i \in 1..Len(hw) :
           /\ hw[i].fmt = _format[k]
           /\ hw[i].index = StreamIndex[k]
           /\ _width[k] \in {0, hw[i].w}
           /\ _height[k] \in {0, hw[i].h}
           /\ _fps[k] \in {0, hw[i].fps}}

\* an enabled image key whose request no profile of its sensor satisfies
NoMatch(k) == k \in ImageKeys /\ _enable[k] /\ Fits(k) = {}

\* DEPTH is enabled and has a matching profile
DepthMatched == _enable[DEPTH] /\ Fits(DEPTH) # {}

\* the other enabled image keys come out of setupStreams as if k had not
\* been asked for: enabled, with their own first match, their sensor
\* opened and started, the descriptors as they were
OthersStarted(k) ==
    /\ phase' = "streams" /\ fatal' = "none"
    /\ UNCHANGED descVars
    /\ \A j \in ImageKeys \ {k} :
          (_enable[j] /\ Fits(j) # {}) =>
              /\ _enable'[j]
              /\ _enabled_profiles'[j] = << HwProfiles(_sensors[j])[Min(Fits(j))] >>
              /\ sensor'[_sensors[j]].st = "streaming"

\* C21 as stated: for any enabled image key without a matching profile,
\* DEPTH included, setupStreams clears the flag, warns, and start-up goes
\* on: the other enabled streams are opened and started, unaffected, and no
\* later step of start-up ends the process for want of a profile.
C21_AsStated ==
    /\ [][phase = "publishers" =>
            \A k \in ImageKeys :
               NoMatch(k) => /\ ~_enable'[k] /\ k \in warned'
                             /\ OthersStarted(k)]_vars
    /\ [](fatal # "no_depth_profile")

\* C21: for any enabled image key without a matching profile setupStreams
\* clears the flag and warns. When DEPTH has a matching profile start-up
\* goes on: the other enabled streams are opened and started, unaffected,
\* and publishStaticTransforms completes. When DEPTH is the key without a
\* profile start-up ends fatally: in setupStreams when another image stream
\* has a profile, in publishStaticTransforms otherwise.
C21_UnmatchedNonDepthContinues ==
    /\ [][phase = "publishers" =>
            \A k \in ImageKeys :
               NoMatch(k) =>
                  /\ ~_enable'[k] /\ k \in warned'
                  /\ DepthMatched => OthersStarted(k)
                  /\ ~DepthMatched =>
                        IF \E j \in ImageKeys : _enable[j] /\ Fits(j) # {}
                        THEN phase' = "dead" /\ fatal' = "no_depth_profile"
                             /\ UNCHANGED sensor
                        ELSE phase' = "streams"]_vars
    /\ [][phase = "filters" =>
            IF DEPTH \in warned
            THEN phase' = "dead" /\ fatal' = "no_depth_profile"
            ELSE phase' = "up" /\ fatal' = "none"]_vars

\* colour asked at width 1920 has no profile: it is disabled with a
\* warning, and the session is up with the stereo module streaming
C21_Witness ==
    /\ phase = "up"
    /\ warned = {COLOR} /\ ~_enable[COLOR] /\ _enable[DEPTH]
    /\ _enabled_profiles[COLOR] = << >>
    /\ _enabled_profiles[DEPTH] # << >>
    /\ sensor[StereoModule].st = "streaming"
    /\ sensor[RGBCamera].st = "closed"

\* the descriptor of a key: pixel format, decoded pixel layout, output
\* encoding, bytes per unit
Descriptor(k) ==
    [format |-> _format[k], image_format |-> _image_format[k],
     encoding |-> _encoding[k], unit_step_size |-> _unit_step_size[k]]

\* C22: a setupFilters that returns, with "colorizer" in the request, leaves
\* the DEPTH descriptor's pixel format, decoded pixel layout, output
\* encoding and bytes-per-unit equal to COLOR's, and the descriptor, the
\* enabled flag and the resolved width, height and fps of every other key,
\* COLOR included, as they were; without "colorizer" it leaves those of
\* every key, DEPTH included, as they were.
C22_ColorizerAdoptsColor ==
    [][(phase = "streams" /\ phase' = "filters") =>
          LET Same(k) == /\ Descriptor(k)' = Descriptor(k)
                         /\ _enable'[k] = _enable[k]
                         /\ _width'[k] = _width[k] /\ _height'[k] = _height[k]
                         /\ _fps'[k] = _fps[k]
          IN  IF Contains(_filters_str, "colorizer")
              THEN /\ Descriptor(DEPTH)' = Descriptor(COLOR)'
                   /\ \A k \in StreamKeys \ {DEPTH} : Same(k)
              ELSE \A k \in StreamKeys : Same(k)]_vars

\* "temporal,colorizer": the DEPTH descriptor has become RGB8, three bytes
\* per unit, and the COLOR descriptor is the constructor's
C22_Witness ==
    /\ phase = "filters"
    /\ _filters_str = <<"temporal", "colorizer">>
    /\ Descriptor(DEPTH) = [format |-> "RGB8", image_format |-> "CV_8UC3",
                            encoding |-> "rgb8", unit_step_size |-> 3]
    /\ Descriptor(COLOR) = Descriptor(DEPTH)
    /\ Descriptor(INFRA1).format = "Y8"

\* C23: with the colorizer in the pipeline, every DEPTH image a frame
\* callback publishes has three bytes per pixel: its step is its width
\* times 3, not its width times 2, and its encoding is COLOR's.
C23_ColorizedDepthStep ==
    [][\A th \in Threads :
          (pc[th] = "publish" /\ pc'[th] = "done" /\ Contains(_filters, "colorizer")) =>
              \A a \in 1..Len(out'[th].published) :
                 LET m == out'[th].published[a]
                 IN  (m.sink = "image" /\ m.key = DEPTH) =>
                        /\ m.step = m.width * 3
                        /\ m.step # m.width * 2
                        /\ m.encoding = CtorEncoding[COLOR]]_vars

\* a frameset with a depth frame went through the colorizer and its DEPTH
\* image was published, 1280 pixels wide with a step of 3840 bytes
C23_Witness ==
    /\ Contains(_filters, "colorizer")
    /\ pc[SyncerThread] = "done"
    /\ \E a \in 1..Len(out[SyncerThread].published) :
          LET m == out[SyncerThread].published[a]
          IN  /\ m.sink = "image" /\ m.key = DEPTH
              /\ m.width = 1280 /\ m.step = 3840 /\ m.encoding = "rgb8"

\* the modules of the image groups
ImageModules == {StereoModule, CodedLight, RGBCamera, WideFOV}

\* C24: the delivery target of every streaming sensor is the one the
\* session's mode asks for: with _sync_frames false no sensor streams into
\* the syncer, with _sync_frames true no image sensor streams into the frame
\* callback directly, after setupStreams and after any toggleSensors.
C24_ModeExclusive ==
    \A m \in SensorModules :
        sensor[m].st = "streaming" =>
            /\ ~_sync_frames => sensor[m].target # "syncer"
            /\ (_sync_frames /\ m \in ImageModules) => sensor[m].target # "frame_callback"

\* a callback invocation is executing on the thread
Executing(th) == pc[th] \notin {"idle", "done"}

\* the keys whose last-image buffer (images[stream]) and sequence counter
\* (seq[stream]) the invocation on a thread writes: those of its frames
WrittenKeys(th) == IF Executing(th) THEN KeysIn(cur[th].frames) ELSE {}

\* C25: no two callback invocations that are executing at the same time
\* write the same key's last-image buffer or sequence counter.
C25_SingleWriter ==
    \A th1, th2 \in Threads :
        th1 # th2 => WrittenKeys(th1) \cap WrittenKeys(th2) = {}

\* two invocations execute at the same time, on frames of different keys
C25_Witness ==
    \E th1, th2 \in Threads :
        /\ th1 # th2
        /\ pc[th1] = "publish" /\ pc[th2] \in {"publish", "hid_publish"}
        /\ WrittenKeys(th1) # {} /\ WrittenKeys(th2) # {}

\* C26: with the time base initialized (the flag set and both origins
\* written) and synchronized mode on, a published inertial sample carries
\* a reading of the wall clock plus _ros_time_offset as its stamp, as the
\* images do.
C26_InertialSyncStamp ==
    \A th \in Threads :
        \A a \in 1..Len(out[th].published) :
            (/\ out[th].published[a].sink = "imu"
             /\ _sync_frames /\ _intialize_time_base
             /\ _camera_time_base # Unset
             /\ \A o \in Threads : pc[o] \notin {"init_ros", "init_cam"}) =>
                \E wall \in WallTimes :
                    out[th].published[a].stamp = wall + _ros_time_offset

\* the number of frames of a key among those handed to publishFrame
HandedOfKey(handed, k) == Cardinality({a \in 1..Len(handed) : handed[a].key = k})

\* C27: every step adds to the sequence counter of an image key exactly the
\* number of frames of that key it hands to publishFrame, subscribers or
\* not; the counters start at 0, so each never decreases and equals the
\* number of frames of its key handed to publishFrame so far.
C27_CounterCountsHanded ==
    [][IF \E th \in Threads : pc[th] = "publish" /\ pc'[th] = "done"
       THEN \A th \in Threads :
               (pc[th] = "publish" /\ pc'[th] = "done")
                   => \A k \in ImageKeys :
                         /\ _seq'[k] = _seq[k] + HandedOfKey(out'[th].handed, k)
                         /\ _seq'[k] >= _seq[k]
       ELSE \A k \in ImageKeys : _seq'[k] = _seq[k]]_vars

\* two framesets with a depth frame have been handed over, the second
\* with no subscriber: nothing was published and the counter is 2
C27_Witness ==
    /\ _seq[DEPTH] = 2
    /\ pc[SyncerThread] = "done"
    /\ out[SyncerThread].handed # << >>
    /\ out[SyncerThread].published = << >>
    /\ out[SyncerThread].threw = NoException

\* C28: the sequence number of a published image message and of its
\* camera-info message is the value the key's counter has just been
\* incremented to.
C28_HeaderSeqIsCounter ==
    (ret.fn = "publishFrame" /\ ret.r.sinks # << >>)
        => ret.header_seq = ret.r.seq[call.f.key]

\* the frameset after the first n stages of the pipeline, each stage
\* working on the result of the stage before it
RECURSIVE StageOutput(_, _)
StageOutput(frames, n) ==
    IF n = 0 THEN frames
    ELSE ProcessFilter(_filters[n], StageOutput(frames, n - 1), TRUE)

\* C29: when the callback works on a frameset, the stages that run are
\* those of _filters, each once and in list order, each on the result of
\* the one before; deduplication and publishing work on the result of the
\* last stage, and none of this depends on who subscribes.
C29_PipelineAppliedInOrder ==
    [][\A th \in Threads :
          (pc[th] = "publish" /\ pc'[th] = "done" /\ cur[th].composite)
              => /\ out'[th].applied = _filters
                 /\ out'[th].post = StageOutput(cur[th].frames, Len(_filters))
                 /\ out'[th].todo =
                        Dedup(out'[th].post, 1, NoDedup, _align_depth).frames_to_publish
                 /\ \A a \in 1..Len(out'[th].handed) :
                        \E i \in 1..Len(out'[th].todo) :
                            /\ out'[th].handed[a].pos = out'[th].todo[i]
                            /\ out'[th].handed[a].key = out'[th].post[out'[th].todo[i]].key]_vars

\* a frameset has gone through a colorizer and a pointcloud stage with no
\* subscriber anywhere: both stages ran and nothing was published
C29_Witness ==
    /\ pc[SyncerThread] = "done"
    /\ _filters = <<"colorizer", "pointcloud">>
    /\ out[SyncerThread].applied = <<"colorizer", "pointcloud">>
    /\ Len(out[SyncerThread].post) = Len(cur[SyncerThread].frames) + 2
    /\ out[SyncerThread].published = << >>
    /\ ~out[SyncerThread].pcSubs

\* the number of stages of a name in a pipeline
Stages(filters, name) == Cardinality({i \in 1..Len(filters) : filters[i] = name})

\* C30: assert(_pointcloud) never fails: once getParameters has run, a
\* "pointcloud" token in the filter string implies _pointcloud; and after
\* setupFilters the pipeline holds a pointcloud stage (one, the last) if
\* and only if _pointcloud is true, whichever way the flag was set.
C30_PointcloudAssertHolds ==
    /\ fatal # "assertion_failed"
    /\ phase # "constructed" =>
          /\ Contains(_filters_str, "pointcloud") => _pointcloud
          /\ phase = "streams" =>
                SetupFilters(_filters_str, _pointcloud, _filters).assert_ok
    /\ phase \in {"filters", "up"} =>
          /\ _pointcloud <=> Contains(_filters, "pointcloud")
          /\ Stages(_filters, "pointcloud") = (IF _pointcloud THEN 1 ELSE 0)
          /\ _pointcloud => _filters[Len(_filters)] = "pointcloud"

\* setupFilters has passed the assert at a "pointcloud" token and has
\* added the stage after the stage of the token that follows it
C30_Witness ==
    /\ phase = "filters"
    /\ _filters_str = <<"pointcloud", "spatial">>
    /\ _pointcloud
    /\ _filters = <<"spatial", "pointcloud">>

\* C31: a frame callback runs only once setupFilters has completed: no
\* invocation is executing while start-up is still between setupStreams
\* and the end of setupFilters, so _filters and the DEPTH descriptor are
\* final whenever a frame is processed.
C31_FiltersFinalBeforeFrames ==
    \A th \in Threads :
        (Executing(th) /\ cur[th].composite) => phase # "streams"

\* the step in which an invocation computes a timestamp from the time base:
\* frame_callback outside synchronized mode, the inertial callback when it
\* publishes
ReadsTimeBase(th) ==
    \/ pc[th] = "stamp" /\ pc'[th] = "publish" /\ ~_sync_frames
    \/ pc[th] = "hid_publish" /\ pc'[th] = "done" /\ out'[th].published # << >>

\* C32: a callback that computes a timestamp from the time base reads
\* origins that have both been written: _camera_time_base holds a value and
\* no invocation is between setting _intialize_time_base and writing
\* _camera_time_base.
C32_BasesWrittenWhenRead ==
    [][\A th \in Threads :
          ReadsTimeBase(th)
              => /\ _camera_time_base # Unset
                 /\ \A other \in Threads : pc[other] \notin {"init_ros", "init_cam"}]_vars

\* the callback setupStreams registers for the frames of a sensor
SetupTarget(m) == IF m = MotionModule THEN "hid_callback" ELSE StartTarget(_sync_frames)

\* C33: a sensor that toggleSensors starts again delivers its frames where
\* it delivered them before the stop: an image sensor to frame_callback,
\* directly or through the syncer when the syncer has been started, the
\* motion module to the inertial callback.
C33_RestartKeepsCallback ==
    [][\A m \in SensorModules :
          (phase = "up" /\ sensor[m].st = "open" /\ sensor'[m].st = "streaming")
              => /\ sensor'[m].target = SetupTarget(m)
                 /\ sensor'[m].target = "syncer" => syncer_started]_vars

\* C34: in a call of publishPointCloud that reaches the two passes, the
\* number of point records the fill pass writes equals num_valid_points,
\* the width the message was allocated with, with or without a texture.
C34_FillMatchesCount ==
    (/\ ret.fn = "publishPointCloud"
     /\ call.texture.use_texture => call.texture.found) =>
        Len(Written(call.pts, 1, call.texture.use_texture,
                    call.texture.w, call.texture.h))
            = NumValidPoints(call.pts, 1)

\* C35: for every point with 0 <= u <= 1 and 0 <= v <= 1 and every texture,
\* the three bytes the fill pass reads at its offset lie inside the texture
\* buffer, u = 1 and v = 1 included.
C35_TextureReadInBounds ==
    (/\ ret.fn = "publishPointCloud"
     /\ call.texture.use_texture /\ call.texture.found) =>
        \A k \in 1..Len(call.pts) :
            ValidUV(call.pts[k].u, call.pts[k].v) =>
                SampleColour(call.pts[k].u, call.pts[k].v, TRUE,
                             call.texture.w, call.texture.h) # OutOfBounds

\* the step in which an invocation publishes its counter message
SendsCounter(th) == out[th].counter = << >> /\ out'[th].counter # << >>

\* C36: the counter messages carry 0, 1, 2, ... in publication order: each
\* carries the number of counter messages published before it.
C36_CounterValuesConsecutive ==
    [][\A th \in Threads :
          SendsCounter(th) => out'[th].counter[1].value = counters_sent]_vars

\* C37: an invocation publishes a counter message only if it has published
\* an image, aligned-depth or point-cloud message itself; it publishes at
\* most one, stamped with its own timestamp.
C37_CounterFollowsOwnPublish ==
    [][\A th \in Threads :
          /\ Len(out'[th].counter) <= 1
          /\ SendsCounter(th)
                => /\ out'[th].published # << >>
                   /\ out'[th].counter[1].stamp = stamp[th]]_vars

\* the place of a frame of the processed frameset in frames_to_publish
TodoIndex(todo, pos) == Min({i \in 1..Len(todo) : todo[i] = pos} \cup {Len(todo) + 1})

C39_FiltersImplySync ==
    /\ phase # "constructed" =>
          ((_pointcloud \/ _align_depth \/ FiltersStrNonEmpty(_filters_str))
              => _sync_frames)
    /\ (phase \in {"filters", "up"} /\ ~_sync_frames) => _filters = << >>

\* a session that asked for no synchronization and one filter: the
\* pipeline holds the filter and the session is synchronized
C39_Witness ==
    /\ phase = "filters"
    /\ _filters_str = <<"spatial">>
    /\ ~_pointcloud /\ ~_align_depth
    /\ _filters = <<"spatial">>
    /\ _sync_frames

\* ---------------------------------------------------------------- C40
\* C40: when setupStreams has run enable_devices, every image key that is
\* still enabled has exactly one recorded profile and its _width, _height and
\* _fps are that profile's non-zero values, and every image key without a
\* recorded profile is disabled; every key whose profile list setupStreams or
\* publishStaticTransforms takes front() of (getRsExtrinsics, getImuInfo) has
\* a non-empty list, so neither step ends in a front() of an empty list.
C40_ProfilesBehindFront ==
    [][/\ (phase = "publishers" /\ phase' # "publishers") =>
            /\ \A k \in ImageKeys :
                 /\ _enable'[k] =>
                       /\ Len(_enabled_profiles'[k]) = 1
                       /\ _width'[k] = _enabled_profiles'[k][1].w
                       /\ _height'[k] = _enabled_profiles'[k][1].h
                       /\ _fps'[k] = _enabled_profiles'[k][1].fps
                       /\ _width'[k] # 0 /\ _height'[k] # 0 /\ _fps'[k] # 0
                 /\ _enabled_profiles'[k] = << >> => ~_enable'[k]
            /\ \A k \in StreamsFrontKeys(_enable', _enabled_profiles') :
                 _enabled_profiles'[k] # << >>
            /\ fatal' # "front_of_empty_list"
       /\ (phase = "filters" /\ phase' # "filters") =>
            /\ \A k \in TransformFrontKeys(_enable, _enabled_profiles) :
                 _enabled_profiles[k] # << >>
            /\ fatal' # "front_of_empty_list"]_vars

\* start-up finished with the depth stream resolved to 640x480, the colour
\* request refused, the first infrared stream and both HID streams opened:
\* getRsExtrinsics ran for DEPTH and INFRA1, getImuInfo for GYRO and ACCEL
C40_Witness ==
    /\ phase = "up"
    /\ _enable[DEPTH] /\ Len(_enabled_profiles[DEPTH]) = 1
    /\ _width[DEPTH] = 640 /\ _height[DEPTH] = 480 /\ _fps[DEPTH] = 30
    /\ COLOR \in warned /\ ~_enable[COLOR] /\ _enabled_profiles[COLOR] = << >>
    /\ StreamsFrontKeys(_enable, _enabled_profiles) = {DEPTH, INFRA1, GYRO, ACCEL}
    /\ TransformFrontKeys(_enable, _enabled_profiles) = {DEPTH, INFRA1}
====
